---- MODULE Spec2Model ----
(***************************************************************************)
(* Release server of the package manager: the request handlers             *)
(* InstallRelease, UpdateRelease, RollbackRelease and UninstallRelease     *)
(* over the release store and the orchestrator client.                     *)
(*                                                                         *)
(* Each handler runs on its own task.  A handler is cut into atomic steps  *)
(* at its store operations: the orchestrator calls a handler makes between *)
(* two store operations touch no shared state of the server, so they are   *)
(* part of the step that ends in the next store operation.                 *)
(***************************************************************************)
EXTENDS Integers, Sequences, FiniteSets, TLC

VARIABLES
    store,    \* the release store: (name, version) -> release record
    pc,       \* per task: position of its handler
    req,      \* per task: the request being handled
    cur,      \* per task: currentRelease / the release fetched by Deployed
    rel,      \* per task: the release under construction (rel, updatedRelease, targetRelease)
    res,      \* per task: what the handler returned
    klog,     \* per task: the orchestrator calls of the current handler, in order
    tries,    \* per task: iterations of the name generation loop
    now,      \* the clock read by timeconv.Now()
    started,  \* number of requests received so far
    overlap,  \* per task: the tasks whose handlers ran during its current handler
    raced,    \* some handler has run while another one was in progress
    hrun,     \* a run of execHook on its own: hooks, event, failure, outcome
    listed,   \* per task: the response ListReleases sent on the stream
    srun,     \* a run of the manifest sorter on its own: files, apply and delete order
    crun      \* a run of a client command on its own: repo index, install --set

vars == <<store, pc, req, cur, rel, res, klog, tries, now, started, overlap, raced,
          hrun, listed, srun, crun>>

----------------------------------------------------------------------------
(* Bounds of the model *)

MaxVersion == 3        \* highest version number a release may get
MaxOps == 4            \* requests received in one behaviour
MaxSeqOps == 3         \* requests received where every kind of request is served
MaxClock == 2          \* highest clock reading
MaxHooks == 3          \* hooks of a release handed to execHook on its own
MaxFiles == 3          \* rendered files handed to the manifest sorter on its own
MaxPairs == 3          \* pairs of one --set argument

Procs == {"t1", "t2"}
Names == {"a"}

----------------------------------------------------------------------------
(* Program constants *)

releaseNameMaxLen == 14
maxTries == 5

UNKNOWN == "UNKNOWN"
DEPLOYED == "DEPLOYED"
SUPERSEDED == "SUPERSEDED"
DELETED == "DELETED"
FAILED == "FAILED"

preInstall == "pre-install"
postInstall == "post-install"
preDelete == "pre-delete"
postDelete == "post-delete"
preUpgrade == "pre-upgrade"
postUpgrade == "post-upgrade"
preRollback == "pre-rollback"
postRollback == "post-rollback"

----------------------------------------------------------------------------
(* Charts: what a request carries and what the render engine makes of it *)

Charts == {"c1", "c2"}
NilChart == "nil"

\* renderer.Render + sortManifests + the concatenation loop: the manifest
\* document of a chart, as the sequence of its resource blocks.
RenderManifest(c) ==
    IF c = "c1" THEN <<"Namespace", "Pod">> ELSE <<"ConfigMap">>

\* the hooks sortManifests returns for a chart
RenderHooks(c) ==
    IF c = "c1"
    THEN << [name |-> "h1", lastRun |-> 0,
             events |-> {preInstall, preUpgrade, preRollback, preDelete}],
            [name |-> "h2", lastRun |-> 0,
             events |-> {postInstall, postUpgrade, postRollback, postDelete}] >>
    ELSE << >>

\* the values of a request: one set of values per chart
ValuesOf(c) == IF c = "c1" THEN "v1" ELSE "v2"

NoRel ==
    [name |-> "", version |-> 0, namespace |-> "", chart |-> NilChart,
     config |-> "", manifest |-> << >>, hooks |-> << >>, status |-> UNKNOWN,
     first |-> 0, last |-> 0, deleted |-> 0]

\* what a ListReleases request asks for: status codes, filter, order and page
NoList ==
    [codes |-> {}, filter |-> "", sortBy |-> "UNKNOWN", desc |-> FALSE,
     offset |-> "", limit |-> 0]

NoReq ==
    [op |-> "none", name |-> "", chart |-> NilChart, reuse |-> FALSE,
     dryRun |-> FALSE, disableHooks |-> FALSE, purge |-> FALSE,
     version |-> 0, compatible |-> TRUE, list |-> NoList]

\* no response sent; sorted is the list the page is cut from
NoResponse ==
    [next |-> "", count |-> 0, total |-> 0, releases |-> << >>, sorted |-> << >>]

----------------------------------------------------------------------------
(* The release store (the Releases handle of the environment) *)

Key(r) == <<r.name, r.version>>

Has(s, n, v) == <<n, v>> \in DOMAIN s

\* Get(name, version): the stored record, or NotFound
Get(s, n, v) ==
    IF Has(s, n, v) THEN [err |-> "", rel |-> s[<<n, v>>]]
    ELSE [err |-> "NotFound", rel |-> NoRel]

\* Create(r): AlreadyExists when (name, version) is present
Create(s, r) ==
    IF Has(s, r.name, r.version) THEN [err |-> "AlreadyExists", store |-> s]
    ELSE [err |-> "", store |-> (Key(r) :> r) @@ s]

\* Update(r): NotFound when absent, else overwrites in place
Update(s, r) ==
    IF Has(s, r.name, r.version)
    THEN [err |-> "", store |-> [s EXCEPT ![Key(r)] = r]]
    ELSE [err |-> "NotFound", store |-> s]

\* Delete(name, version): removes the record
Delete(s, n, v) ==
    IF Has(s, n, v)
    THEN [err |-> "", store |-> [k \in DOMAIN s \ {<<n, v>>} |-> s[k]]]
    ELSE [err |-> "NotFound", store |-> s]

\* the versions Deployed(name) may return: those stored with status DEPLOYED
DeployedVersions(s, n) ==
    {k[2] : k \in {x \in DOMAIN s : x[1] = n /\ s[x].status = DEPLOYED}}

\* History(name): the stored versions of a name
History(s, n) == {k[2] : k \in {x \in DOMAIN s : x[1] = n}}

----------------------------------------------------------------------------
(* execHook *)

\* the hooks of hs that implement event ev
Matching(hs, ev) == {i \in 1 .. Len(hs) : ev \in hs[i].events}

\* where a run of execHook may fail: nowhere (<<0, "">>), or at the Create
\* or the WatchUntilReady of a hook that implements the event
HookFailures(hs, ev) ==
    {<<0, "">>} \cup (Matching(hs, ev) \X {"Create", "WatchUntilReady"})

RECURSIVE HookCalls(_, _, _, _)
HookCalls(hs, ev, fail, i) ==
    IF i > Len(hs) THEN << >>
    ELSE IF i \notin Matching(hs, ev) THEN HookCalls(hs, ev, fail, i + 1)
    ELSE IF fail[1] = i
         THEN IF fail[2] = "Create"
              THEN << <<"Create", hs[i].name>> >>
              ELSE << <<"Create", hs[i].name>>, <<"WatchUntilReady", hs[i].name>> >>
    ELSE << <<"Create", hs[i].name>>, <<"WatchUntilReady", hs[i].name>> >>
         \o HookCalls(hs, ev, fail, i + 1)

\* an execHook that stamps the hook whose Create or WatchUntilReady failed
execHook_StampsFailedHook(hs, ev, fail, t) ==
    [hooks |-> [i \in 1 .. Len(hs) |->
                   IF i \in Matching(hs, ev) /\ (fail[1] = 0 \/ i <= fail[1])
                   THEN [hs[i] EXCEPT !.lastRun = t] ELSE hs[i]],
     calls |-> HookCalls(hs, ev, fail, 1),
     err   |-> IF fail[1] = 0 THEN "" ELSE "HookFailed"]

\* execHook(hs, name, namespace, hook) at time t, failing at fail
execHook(hs, ev, fail, t) ==
    [hooks |-> [i \in 1 .. Len(hs) |->
                   IF i \in Matching(hs, ev) /\ (fail[1] = 0 \/ i < fail[1])
                   THEN [hs[i] EXCEPT !.lastRun = t] ELSE hs[i]],
     calls |-> HookCalls(hs, ev, fail, 1),
     err   |-> IF fail[1] = 0 THEN "" ELSE "HookFailed"]

\* handlers that run their hooks whatever the request's disable_hooks says
runHooks_WhateverTheRequest(disabled, hs, ev, fail, t) ==
    execHook(hs, ev, fail, t)

\* execHook under "if !req.DisableHooks"
runHooks(disabled, hs, ev, fail, t) ==
    IF disabled THEN [hooks |-> hs, calls |-> << >>, err |-> ""]
    ELSE execHook(hs, ev, fail, t)

HookChoices(disabled, hs, ev) ==
    IF disabled THEN {<<0, "">>} ELSE HookFailures(hs, ev)

\* the hook lists execHook is run on by itself: up to MaxHooks hooks that
\* have not run, each implementing any of two events
HookEvents == {preInstall, postInstall}

HookLists ==
    UNION {{[i \in 1 .. n |->
                [name |-> "h" \o ToString(i), lastRun |-> 0, events |-> es[i]]] :
              es \in [1 .. n -> SUBSET HookEvents]} :
           n \in 0 .. MaxHooks}

NoOutcome == [hooks |-> << >>, calls |-> << >>, err |-> "none"]

NoRun == [hooks |-> << >>, event |-> "", fail |-> <<0, "">>, out |-> NoOutcome]

\* a list of hooks, an event, and where the orchestrator fails
HookRuns ==
    UNION {{[hooks |-> hs, event |-> ev, fail |-> f, out |-> NoOutcome] :
              f \in HookFailures(hs, ev)} :
           <<hs, ev>> \in HookLists \X HookEvents}

----------------------------------------------------------------------------
(* Name allocation *)

\* the names moniker generates where every kind of request is served
GeneratedNames == Names

\* requested names at the length limit and one over it
Name14 == "abcdefghijklmn"
Name15 == "abcdefghijklmno"

\* the names moniker generates where name allocation is looked at: a short
\* one and one of 16 characters
Monikers == {"a", "abcdefghijklmnop"}

\* a generated name kept whole, whatever its length
Truncate_Whole(n) == n

\* name = name[:releaseNameMaxLen] when the generated name is longer
Truncate(n) ==
    IF Len(n) > releaseNameMaxLen THEN SubSeq(n, 1, releaseNameMaxLen) ELSE n

\* a Get that fails with an error other than ErrReleaseNotFound returns no
\* release
StoreFailure == [err |-> "StoreError", rel |-> NoRel]

\* uniqName for a supplied name, on the outcome g of its store lookup: the
\* status of the release is read unless the lookup ended with
\* ErrReleaseNotFound; when there is no release that read is a nil dereference
uniqNameOn(g, start, reuse) ==
    IF Len(start) > releaseNameMaxLen THEN [name |-> "", err |-> "TooLong"]
    ELSE IF g.err = "NotFound" THEN [name |-> start, err |-> ""]
    ELSE IF g.err # "" THEN [name |-> "", err |-> "NilDereference"]
    ELSE IF reuse /\ g.rel.status \in {DELETED, FAILED}
         THEN [name |-> start, err |-> ""]
    ELSE IF reuse THEN [name |-> "", err |-> "InUse"]
    ELSE [name |-> "", err |-> "AlreadyExists"]

\* a uniqName that refuses a name whose length is the limit
uniqName_RefusesAtLimit(s, start, reuse) ==
    IF Len(start) >= releaseNameMaxLen THEN [name |-> "", err |-> "TooLong"]
    ELSE LET g == Get(s, start, 1) IN
         IF g.err = "NotFound" THEN [name |-> start, err |-> ""]
         ELSE IF reuse /\ g.rel.status \in {DELETED, FAILED}
              THEN [name |-> start, err |-> ""]
         ELSE IF reuse THEN [name |-> "", err |-> "InUse"]
         ELSE [name |-> "", err |-> "AlreadyExists"]

\* a uniqName that grants a name in use whenever reuse is asked for
uniqName_GrantsAnyReuse(s, start, reuse) ==
    IF Len(start) > releaseNameMaxLen THEN [name |-> "", err |-> "TooLong"]
    ELSE LET g == Get(s, start, 1) IN
         IF g.err = "NotFound" THEN [name |-> start, err |-> ""]
         ELSE IF reuse THEN [name |-> start, err |-> ""]
         ELSE [name |-> "", err |-> "AlreadyExists"]

\* a uniqName that also grants for reuse a name whose version 1 is SUPERSEDED
uniqName_ReusesSuperseded(s, start, reuse) ==
    IF Len(start) > releaseNameMaxLen THEN [name |-> "", err |-> "TooLong"]
    ELSE LET g == Get(s, start, 1) IN
         IF g.err = "NotFound" THEN [name |-> start, err |-> ""]
         ELSE IF reuse /\ g.rel.status \in {DELETED, FAILED, SUPERSEDED}
              THEN [name |-> start, err |-> ""]
         ELSE IF reuse THEN [name |-> "", err |-> "InUse"]
         ELSE [name |-> "", err |-> "AlreadyExists"]

\* uniqName for a supplied name: the store lookup and the grant decision
uniqName(s, start, reuse) ==
    IF Len(start) > releaseNameMaxLen THEN [name |-> "", err |-> "TooLong"]
    ELSE LET g == Get(s, start, 1) IN
         IF g.err = "NotFound" THEN [name |-> start, err |-> ""]
         ELSE IF reuse /\ g.rel.status \in {DELETED, FAILED}
              THEN [name |-> start, err |-> ""]
         ELSE IF reuse THEN [name |-> "", err |-> "InUse"]
         ELSE [name |-> "", err |-> "AlreadyExists"]

----------------------------------------------------------------------------
(* Install *)

\* the release prepareRelease builds
NewRelease(name, rq, ts) ==
    [name |-> name, version |-> 1, namespace |-> "ns", chart |-> rq.chart,
     config |-> ValuesOf(rq.chart), manifest |-> RenderManifest(rq.chart),
     hooks |-> RenderHooks(rq.chart), status |-> UNKNOWN,
     first |-> ts, last |-> ts, deleted |-> 0]

recordRelease(s, r, reuse) ==
    IF reuse THEN Update(s, r).store ELSE Create(s, r).store

\* a performRelease that creates the manifest before it runs the
\* pre-install hooks
performRelease_AppliesFirst(r, rq, s, t, fpre, fkube, fpost) ==
    IF rq.dryRun THEN [rel |-> r, store |-> s, calls |-> << >>, err |-> ""]
    ELSE
    LET pre   == runHooks(rq.disableHooks, r.hooks, preInstall, fpre, t)
        r1    == [r EXCEPT !.hooks = pre.hooks]
        c1    == << <<"Create", "manifest">> >> \o pre.calls
        post  == runHooks(rq.disableHooks, r1.hooks, postInstall, fpost, t)
        r2    == [r1 EXCEPT !.hooks = post.hooks]
        c2    == c1 \o post.calls
    IN  IF fkube
        THEN LET rf == [r EXCEPT !.status = FAILED] IN
             [rel |-> rf, store |-> recordRelease(s, rf, rq.reuse),
              calls |-> << <<"Create", "manifest">> >>, err |-> "OrchestratorError"]
        ELSE IF pre.err # ""
        THEN [rel |-> r1, store |-> s, calls |-> c1, err |-> pre.err]
        ELSE IF post.err # ""
        THEN LET rf == [r2 EXCEPT !.status = FAILED] IN
             [rel |-> rf, store |-> recordRelease(s, rf, rq.reuse),
              calls |-> c2, err |-> post.err]
        ELSE LET rd == [r2 EXCEPT !.status = DEPLOYED] IN
             [rel |-> rd, store |-> recordRelease(s, rd, rq.reuse),
              calls |-> c2, err |-> ""]

\* performRelease: fpre, fpost say where the hooks fail, fkube whether the
\* orchestrator Create fails
performRelease(r, rq, s, t, fpre, fkube, fpost) ==
    IF rq.dryRun THEN [rel |-> r, store |-> s, calls |-> << >>, err |-> ""]
    ELSE
    LET pre   == runHooks(rq.disableHooks, r.hooks, preInstall, fpre, t)
        r1    == [r EXCEPT !.hooks = pre.hooks]
        c1    == pre.calls \o << <<"Create", "manifest">> >>
        post  == runHooks(rq.disableHooks, r1.hooks, postInstall, fpost, t)
        r2    == [r1 EXCEPT !.hooks = post.hooks]
        c2    == c1 \o post.calls
    IN  IF pre.err # ""
        THEN [rel |-> r1, store |-> s, calls |-> pre.calls, err |-> pre.err]
        ELSE IF fkube
        THEN LET rf == [r1 EXCEPT !.status = FAILED] IN
             [rel |-> rf, store |-> recordRelease(s, rf, rq.reuse),
              calls |-> c1, err |-> "OrchestratorError"]
        ELSE IF post.err # ""
        THEN LET rf == [r2 EXCEPT !.status = FAILED] IN
             [rel |-> rf, store |-> recordRelease(s, rf, rq.reuse),
              calls |-> c2, err |-> post.err]
        ELSE LET rd == [r2 EXCEPT !.status = DEPLOYED] IN
             [rel |-> rd, store |-> recordRelease(s, rd, rq.reuse),
              calls |-> c2, err |-> ""]

----------------------------------------------------------------------------
(* Upgrade and rollback *)

\* the release prepareUpdate builds
UpdatedRelease(c, rq, ts) ==
    [name |-> rq.name, version |-> c.version + 1, namespace |-> c.namespace,
     chart |-> rq.chart, config |-> ValuesOf(rq.chart),
     manifest |-> RenderManifest(rq.chart), hooks |-> RenderHooks(rq.chart),
     status |-> UNKNOWN, first |-> c.first, last |-> ts, deleted |-> 0]

\* a target release built from the current release instead of the previous
TargetRelease_FromCurrent(c, prev, rq, ts) ==
    [name |-> rq.name, version |-> c.version + 1, namespace |-> c.namespace,
     chart |-> c.chart, config |-> c.config,
     manifest |-> c.manifest, hooks |-> c.hooks,
     status |-> UNKNOWN, first |-> c.first, last |-> ts, deleted |-> 0]

\* the release prepareRollback builds from the previous release
TargetRelease(c, prev, rq, ts) ==
    [name |-> rq.name, version |-> c.version + 1, namespace |-> c.namespace,
     chart |-> prev.chart, config |-> prev.config,
     manifest |-> prev.manifest, hooks |-> prev.hooks,
     status |-> UNKNOWN, first |-> c.first, last |-> ts, deleted |-> 0]

\* the original release left with its status unchanged
Superseded_Unmarked(orig) == orig

\* an original release that is stored back without the time of its deployment
Superseded_Undated(orig) == [orig EXCEPT !.status = SUPERSEDED, !.last = 0]

\* originalRelease.Info.Status.Code = release.Status_SUPERSEDED
Superseded(orig) == [orig EXCEPT !.status = SUPERSEDED]

\* the common body of performUpdate and performRollback, up to and
\* including the store Update of the original release
performSwitch(orig, upd, rq, s, t, preEv, postEv, fpre, fkube, fpost) ==
    IF rq.dryRun
    THEN [cur |-> orig, rel |-> upd, store |-> s, calls |-> << >>, err |-> ""]
    ELSE
    LET pre   == runHooks(rq.disableHooks, upd.hooks, preEv, fpre, t)
        u1    == [upd EXCEPT !.hooks = pre.hooks]
        c1    == pre.calls \o << <<"Update", "manifest">> >>
        post  == runHooks(rq.disableHooks, u1.hooks, postEv, fpost, t)
        u2    == [u1 EXCEPT !.hooks = post.hooks]
        c2    == c1 \o post.calls
        o1    == Superseded(orig)
        w     == Update(s, o1)
    IN  IF pre.err # ""
        THEN [cur |-> orig, rel |-> u1, store |-> s, calls |-> pre.calls,
              err |-> pre.err]
        ELSE IF fkube
        THEN [cur |-> orig, rel |-> u1, store |-> s, calls |-> c1,
              err |-> "OrchestratorError"]
        ELSE IF post.err # ""
        THEN [cur |-> orig, rel |-> u2, store |-> s, calls |-> c2,
              err |-> post.err]
        ELSE IF w.err # ""
        THEN [cur |-> o1, rel |-> u2, store |-> s, calls |-> c2,
              err |-> "UpdateFailed"]
        ELSE [cur |-> o1, rel |-> [u2 EXCEPT !.status = DEPLOYED],
              store |-> w.store, calls |-> c2, err |-> ""]

performUpdate(orig, upd, rq, s, t, fpre, fkube, fpost) ==
    performSwitch(orig, upd, rq, s, t, preUpgrade, postUpgrade, fpre, fkube, fpost)

performRollback(orig, upd, rq, s, t, fpre, fkube, fpost) ==
    performSwitch(orig, upd, rq, s, t, preRollback, postRollback, fpre, fkube, fpost)

----------------------------------------------------------------------------
(* Uninstall *)

RECURSIVE Reverse(_)
Reverse(q) == IF q = << >> THEN << >> ELSE Reverse(Tail(q)) \o <<Head(q)>>

\* The kinds the sorter knows, in the order of its install table.
InstallOrder ==
    <<"Namespace", "Secret", "ConfigMap", "PersistentVolume",
      "PersistentVolumeClaim", "ServiceAccount", "Service", "Pod",
      "ReplicationController", "Deployment", "DaemonSet", "StatefulSet",
      "Job", "CronJob">>

\* the uninstall table is the install table read backwards
UninstallOrder == Reverse(InstallOrder)

\* the text of a file: a resource of a kind, or nothing
Blank == [id |-> 0, kind |-> ""]

\* the files of the table's kinds from position i on, each kind's files in
\* the order they stand in
RECURSIVE ByKind(_, _, _)
ByKind(files, table, i) ==
    IF i > Len(table) THEN << >>
    ELSE SelectSeq(files, LAMBDA f : f.content.kind = table[i])
         \o ByKind(files, table, i + 1)

\* sortManifests: empty files are dropped, the others are sorted by the
\* place of their kind in the table, files of one kind keeping their order
sortManifests(files, table) ==
    ByKind(SelectSeq(files, LAMBDA f : f.content # Blank), table, 1)

\* a renderer that writes the sorted manifests last one first
Document_LastFirst(manifests) ==
    << Blank >> \o [i \in 1 .. Len(manifests) |-> manifests[Len(manifests) + 1 - i].content]

\* the loop of renderResources that joins the manifests into one document,
\* as the texts between its separators: nothing stands before the first
Document(manifests) ==
    << Blank >> \o [i \in 1 .. Len(manifests) |-> manifests[i].content]

\* splitManifests: the texts between the separators, named manifest-0,
\* manifest-1, ...
splitManifests(bigfile) ==
    [i \in 1 .. Len(bigfile) |-> [name |-> i - 1, content |-> bigfile[i]]]

\* the files of a stored manifest in the order they are deleted
DeleteOrder(doc) == sortManifests(splitManifests(doc), UninstallOrder)

\* splitManifests + sortManifests(UninstallOrder): the resource blocks of a
\* stored manifest in the order they are deleted
UninstallFiles(manifest) ==
    LET files == DeleteOrder(<< Blank >> \o [i \in 1 .. Len(manifest) |->
                                              [id |-> i, kind |-> manifest[i]]])
    IN  [i \in 1 .. Len(files) |-> files[i].content.kind]

\* The sorter by itself: rendered files, in the order they are handed over,
\* then the order in which they are applied and the order in which the
\* manifest made of them is deleted.
Kinds == {"Namespace", "ConfigMap", "Pod"}

RenderedFiles ==
    UNION {{[i \in 1 .. n |-> [name |-> ns[i], content |-> [id |-> ns[i], kind |-> ks[i]]]] :
               ns \in {f \in [1 .. n -> 1 .. MaxFiles] :
                          \A a, b \in 1 .. n : a # b => f[a] # f[b]},
               ks \in [1 .. n -> Kinds]} :
           n \in 0 .. MaxFiles}

\* no client command has run
NoCommand == [cmd |-> "none"]

NoSort == [files |-> << >>, applied |-> << >>, deleted |-> << >>, sorted |-> FALSE]

\* the Delete calls of the loop over the files; it stops at the first
\* failure (fdel = 0: none fails)
DeleteCalls(files, fdel) ==
    [i \in 1 .. (IF fdel = 0 THEN Len(files) ELSE fdel) |-> <<"Delete", files[i]>>]

\* an UninstallRelease that stores the DELETED record although a post-delete
\* hook has failed
performUninstall_StoresAfterFailedHook(r, rq, s, t, fpre, fvs, fdel, fpost) ==
    LET r0    == [r EXCEPT !.status = DELETED, !.deleted = t]
        pre   == runHooks(rq.disableHooks, r0.hooks, preDelete, fpre, t)
        r1    == [r0 EXCEPT !.hooks = pre.hooks]
        files == UninstallFiles(r1.manifest)
        c1    == pre.calls \o DeleteCalls(files, fdel)
        post  == runHooks(rq.disableHooks, r1.hooks, postDelete, fpost, t)
        r2    == [r1 EXCEPT !.hooks = post.hooks]
        c2    == c1 \o post.calls
        kept  == IF rq.purge THEN Delete(s, r2.name, r2.version).store
                 ELSE Update(s, r2).store
    IN  IF pre.err # ""
        THEN [rel |-> r1, store |-> s, calls |-> pre.calls, err |-> pre.err]
        ELSE IF fvs
        THEN [rel |-> r1, store |-> s, calls |-> pre.calls,
              err |-> "OrchestratorError"]
        ELSE IF fdel # 0
        THEN [rel |-> r1, store |-> s, calls |-> c1, err |-> "OrchestratorError"]
        ELSE IF post.err # ""
        THEN [rel |-> r2, store |-> kept, calls |-> c2, err |-> post.err]
        ELSE [rel |-> r2, store |-> kept, calls |-> c2, err |-> ""]

\* an UninstallRelease that goes on to the post-delete hooks after an
\* orchestrator Delete has failed
performUninstall_HooksAfterFailedDelete(r, rq, s, t, fpre, fvs, fdel, fpost) ==
    LET r0    == [r EXCEPT !.status = DELETED, !.deleted = t]
        pre   == runHooks(rq.disableHooks, r0.hooks, preDelete, fpre, t)
        r1    == [r0 EXCEPT !.hooks = pre.hooks]
        files == UninstallFiles(r1.manifest)
        c1    == pre.calls \o DeleteCalls(files, fdel)
        post  == runHooks(rq.disableHooks, r1.hooks, postDelete, fpost, t)
        r2    == [r1 EXCEPT !.hooks = post.hooks]
        c2    == c1 \o post.calls
    IN  IF pre.err # ""
        THEN [rel |-> r1, store |-> s, calls |-> pre.calls, err |-> pre.err]
        ELSE IF fvs
        THEN [rel |-> r1, store |-> s, calls |-> pre.calls,
              err |-> "OrchestratorError"]
        ELSE IF fdel # 0
        THEN [rel |-> r2, store |-> s, calls |-> c2, err |-> "OrchestratorError"]
        ELSE IF post.err # ""
        THEN [rel |-> r2, store |-> s, calls |-> c2, err |-> post.err]
        ELSE [rel |-> r2,
              store |-> IF rq.purge THEN Delete(s, r2.name, r2.version).store
                        ELSE Update(s, r2).store,
              calls |-> c2, err |-> ""]

\* UninstallRelease after the release has been fetched and found not DELETED
performUninstall(r, rq, s, t, fpre, fvs, fdel, fpost) ==
    LET r0    == [r EXCEPT !.status = DELETED, !.deleted = t]
        pre   == runHooks(rq.disableHooks, r0.hooks, preDelete, fpre, t)
        r1    == [r0 EXCEPT !.hooks = pre.hooks]
        files == UninstallFiles(r1.manifest)
        c1    == pre.calls \o DeleteCalls(files, fdel)
        post  == runHooks(rq.disableHooks, r1.hooks, postDelete, fpost, t)
        r2    == [r1 EXCEPT !.hooks = post.hooks]
        c2    == c1 \o post.calls
    IN  IF pre.err # ""
        THEN [rel |-> r1, store |-> s, calls |-> pre.calls, err |-> pre.err]
        ELSE IF fvs
        THEN [rel |-> r1, store |-> s, calls |-> pre.calls,
              err |-> "OrchestratorError"]
        ELSE IF fdel # 0
        THEN [rel |-> r1, store |-> s, calls |-> c1, err |-> "OrchestratorError"]
        ELSE IF post.err # ""
        THEN [rel |-> r2, store |-> s, calls |-> c2, err |-> post.err]
        ELSE [rel |-> r2,
              store |-> IF rq.purge THEN Delete(s, r2.name, r2.version).store
                        ELSE Update(s, r2).store,
              calls |-> c2, err |-> ""]

----------------------------------------------------------------------------
(* Requests *)

InstallRequests ==
    {[NoReq EXCEPT !.op = "install", !.name = n, !.chart = c, !.reuse = ru,
                   !.dryRun = d, !.disableHooks = h] :
        n \in Names \cup {""}, c \in Charts, ru \in BOOLEAN, d \in BOOLEAN,
        h \in BOOLEAN}
    \cup {[NoReq EXCEPT !.op = "install", !.name = n] : n \in Names}

UpdateRequests ==
    {[NoReq EXCEPT !.op = "update", !.name = n, !.chart = c, !.dryRun = d,
                   !.disableHooks = h] :
        n \in Names, c \in Charts, d \in BOOLEAN, h \in BOOLEAN}
    \cup {[NoReq EXCEPT !.op = "update", !.name = n] : n \in Names}
    \cup {[NoReq EXCEPT !.op = "update", !.chart = c] : c \in Charts}

RollbackRequests ==
    {[NoReq EXCEPT !.op = "rollback", !.name = n, !.dryRun = d,
                   !.disableHooks = h, !.version = v] :
        n \in Names \cup {""}, d \in BOOLEAN, h \in BOOLEAN, v \in {0, 2}}

UninstallRequests ==
    {[NoReq EXCEPT !.op = "uninstall", !.name = n, !.purge = pg,
                   !.disableHooks = h] :
        n \in Names \cup {""}, pg \in BOOLEAN, h \in BOOLEAN}

\* a request of a client whose version is incompatible: nothing but the
\* method is looked at
IncompatibleRequests ==
    {[NoReq EXCEPT !.op = o, !.compatible = FALSE] :
        o \in {"install", "update", "rollback", "uninstall",
               "status", "content", "list"}}

\* the requests of GetVersion, from a compatible client and from another
VersionRequests ==
    {[NoReq EXCEPT !.op = "version", !.compatible = c] : c \in BOOLEAN}

\* the requests of GetReleaseStatus and GetReleaseContent: a name or none,
\* and no version, a stored version or one that may be missing
StatusRequests ==
    {[NoReq EXCEPT !.op = "status", !.name = n, !.version = v] :
        n \in Names \cup {""}, v \in 0 .. 2}

Requests ==
    InstallRequests \cup UpdateRequests \cup RollbackRequests
    \cup UninstallRequests \cup IncompatibleRequests \cup VersionRequests

FirstStep(op) ==
    CASE op = "install"   -> "in_prepare"
      [] op = "update"    -> "up_prepare"
      [] op = "rollback"  -> "rb_deployed"
      [] op = "uninstall" -> "un_deployed"
      [] op = "status"    -> "st_get"
      [] op = "list"      -> "ls_list"

----------------------------------------------------------------------------
(* Actions *)

Init ==
    /\ store = [k \in {} |-> NoRel]
    /\ pc = [p \in Procs |-> "idle"]
    /\ req = [p \in Procs |-> NoReq]
    /\ cur = [p \in Procs |-> NoRel]
    /\ rel = [p \in Procs |-> NoRel]
    /\ res = [p \in Procs |-> "none"]
    /\ klog = [p \in Procs |-> << >>]
    /\ tries = [p \in Procs |-> 0]
    /\ now = 1
    /\ started = 0
    /\ overlap = [p \in Procs |-> {}]
    /\ raced = FALSE
    /\ hrun = NoRun
    /\ listed = [p \in Procs |-> NoResponse]
    /\ srun = NoSort
    /\ crun = NoCommand

\* the handler of p returns r
Return(p, r) ==
    /\ pc' = [pc EXCEPT ![p] = "done"]
    /\ res' = [res EXCEPT ![p] = r]

Goto(p, l) ==
    /\ pc' = [pc EXCEPT ![p] = l]
    /\ UNCHANGED res

Result(err) == IF err = "" THEN "ok" ELSE err

\* a server whose InstallRelease does not check the client version
Start_InstallUnchecked(p, R) ==
    /\ pc[p] \in {"idle", "done"}
    /\ started < MaxOps
    /\ started' = started + 1
    /\ \E rq \in R :
         /\ req' = [req EXCEPT ![p] = rq]
         /\ IF rq.op = "version"
            THEN Return(p, "ServerVersion")
            ELSE IF rq.compatible \/ rq.op = "install"
            THEN /\ pc' = [pc EXCEPT ![p] = FirstStep(rq.op)]
                 /\ res' = [res EXCEPT ![p] = "none"]
            ELSE Return(p, "IncompatibleVersion")
    /\ cur' = [cur EXCEPT ![p] = NoRel]
    /\ rel' = [rel EXCEPT ![p] = NoRel]
    /\ klog' = [klog EXCEPT ![p] = << >>]
    /\ tries' = [tries EXCEPT ![p] = 0]
    /\ overlap' = [q \in Procs |->
                      IF q = p THEN {r \in Procs \ {p} : pc[r] \notin {"idle", "done"}}
                      ELSE IF pc[q] \notin {"idle", "done"} THEN overlap[q] \cup {p}
                      ELSE overlap[q]]
    /\ raced' = (raced \/ \E q \in Procs \ {p} : pc[q] \notin {"idle", "done"})
    /\ listed' = [listed EXCEPT ![p] = NoResponse]
    /\ UNCHANGED <<store, now, hrun, srun, crun>>

\* a request out of R arrives: GetVersion answers at once, the handler of
\* any other method checks the client version first
Start(p, R) ==
    /\ pc[p] \in {"idle", "done"}
    /\ started < MaxOps
    /\ started' = started + 1
    /\ \E rq \in R :
         /\ req' = [req EXCEPT ![p] = rq]
         /\ IF rq.op = "version"
            THEN Return(p, "ServerVersion")
            ELSE IF rq.compatible
            THEN /\ pc' = [pc EXCEPT ![p] = FirstStep(rq.op)]
                 /\ res' = [res EXCEPT ![p] = "none"]
            ELSE Return(p, "IncompatibleVersion")
    /\ cur' = [cur EXCEPT ![p] = NoRel]
    /\ rel' = [rel EXCEPT ![p] = NoRel]
    /\ klog' = [klog EXCEPT ![p] = << >>]
    /\ tries' = [tries EXCEPT ![p] = 0]
    /\ overlap' = [q \in Procs |->
                      IF q = p THEN {r \in Procs \ {p} : pc[r] \notin {"idle", "done"}}
                      ELSE IF pc[q] \notin {"idle", "done"} THEN overlap[q] \cup {p}
                      ELSE overlap[q]]
    /\ raced' = (raced \/ \E q \in Procs \ {p} : pc[q] \notin {"idle", "done"})
    /\ listed' = [listed EXCEPT ![p] = NoResponse]
    /\ UNCHANGED <<store, now, hrun, srun, crun>>

\* timeconv.Now() moves on
Tick ==
    /\ now < MaxClock
    /\ now' = now + 1
    /\ UNCHANGED <<store, pc, req, cur, rel, res, klog, tries, started, overlap, raced, hrun, listed, srun, crun>>

\* prepareRelease once the name is granted: render, then build the release
Prepared(p, name) ==
    \E frender \in BOOLEAN :
        IF frender
        THEN /\ Return(p, "RenderError")
             /\ UNCHANGED rel
        ELSE /\ rel' = [rel EXCEPT ![p] = NewRelease(name, req[p], now)]
             /\ Goto(p, "in_perform")

\* InstallRelease: prepareRelease with one store lookup of uniqName, where
\* moniker generates the names of M and the lookup fails as F allows
InstallPrepareWith(p, M, F) ==
    /\ pc[p] = "in_prepare"
    /\ IF req[p].chart = NilChart
       THEN /\ Return(p, "MissingChart")
            /\ UNCHANGED <<rel, tries>>
       ELSE IF req[p].name # ""
       THEN \E fstore \in F :
            LET u == IF fstore THEN uniqNameOn(StoreFailure, req[p].name, req[p].reuse)
                     ELSE uniqName(store, req[p].name, req[p].reuse)
            IN  IF u.err # ""
                THEN /\ Return(p, u.err)
                     /\ UNCHANGED <<rel, tries>>
                ELSE /\ Prepared(p, u.name)
                     /\ UNCHANGED tries
       ELSE \E m \in M, fstore \in F :
            LET name == Truncate(m)
                g == IF fstore THEN StoreFailure ELSE Get(store, name, 1)
            IN  IF g.err = "NotFound"
                THEN /\ Prepared(p, name)
                     /\ UNCHANGED tries
                ELSE /\ tries' = [tries EXCEPT ![p] = @ + 1]
                     /\ UNCHANGED rel
                     /\ IF tries[p] + 1 = maxTries
                        THEN Return(p, "Exhausted")
                        ELSE UNCHANGED <<pc, res>>
    /\ UNCHANGED <<store, req, cur, klog, now, started, overlap, raced, hrun, listed, srun, crun>>

\* with a store whose lookups fail with ErrReleaseNotFound only
InstallPrepareFrom(p, M) == InstallPrepareWith(p, M, {FALSE})

InstallPrepare(p) == InstallPrepareFrom(p, GeneratedNames)

\* InstallRelease: performRelease
InstallPerform(p) ==
    /\ pc[p] = "in_perform"
    /\ \E fpre \in HookChoices(req[p].disableHooks, rel[p].hooks, preInstall),
          fkube \in BOOLEAN,
          fpost \in HookChoices(req[p].disableHooks, rel[p].hooks, postInstall) :
         LET out == performRelease(rel[p], req[p], store, now, fpre, fkube, fpost) IN
            /\ store' = out.store
            /\ rel' = [rel EXCEPT ![p] = out.rel]
            /\ klog' = [klog EXCEPT ![p] = out.calls]
            /\ Return(p, Result(out.err))
    /\ UNCHANGED <<req, cur, tries, now, started, overlap, raced, hrun, listed, srun, crun>>

\* UpdateRelease: prepareUpdate
UpdatePrepare(p) ==
    /\ pc[p] = "up_prepare"
    /\ IF req[p].name = ""
       THEN /\ Return(p, "MissingRelease")
            /\ UNCHANGED <<cur, rel>>
       ELSE IF req[p].chart = NilChart
       THEN /\ Return(p, "MissingChart")
            /\ UNCHANGED <<cur, rel>>
       ELSE IF DeployedVersions(store, req[p].name) = {}
       THEN /\ Return(p, "NotFound")
            /\ UNCHANGED <<cur, rel>>
       ELSE \E v \in DeployedVersions(store, req[p].name), frender \in BOOLEAN :
            LET c == store[<<req[p].name, v>>] IN
            /\ v < MaxVersion
            /\ IF frender
               THEN /\ Return(p, "RenderError")
                    /\ UNCHANGED <<cur, rel>>
               ELSE /\ cur' = [cur EXCEPT ![p] = c]
                    /\ rel' = [rel EXCEPT ![p] = UpdatedRelease(c, req[p], now)]
                    /\ Goto(p, "up_perform")
    /\ UNCHANGED <<store, req, klog, tries, now, started, overlap, raced, hrun, listed, srun, crun>>

\* an UpdateRelease that goes on to the Create of the updated release when
\* the request is a dry run
UpdatePerform_CreatesOnDryRun(p) ==
    /\ pc[p] = "up_perform"
    /\ \E fpre \in HookChoices(req[p].disableHooks, rel[p].hooks, preUpgrade),
          fkube \in BOOLEAN,
          fpost \in HookChoices(req[p].disableHooks, rel[p].hooks, postUpgrade) :
         LET out == performUpdate(cur[p], rel[p], req[p], store, now, fpre, fkube, fpost) IN
            /\ store' = out.store
            /\ cur' = [cur EXCEPT ![p] = out.cur]
            /\ rel' = [rel EXCEPT ![p] = out.rel]
            /\ klog' = [klog EXCEPT ![p] = out.calls]
            /\ IF out.err # "" THEN Return(p, out.err)
               ELSE Goto(p, "up_create")
    /\ UNCHANGED <<req, tries, now, started, overlap, raced, hrun, listed, srun, crun>>

\* UpdateRelease: performUpdate
UpdatePerform(p) ==
    /\ pc[p] = "up_perform"
    /\ \E fpre \in HookChoices(req[p].disableHooks, rel[p].hooks, preUpgrade),
          fkube \in BOOLEAN,
          fpost \in HookChoices(req[p].disableHooks, rel[p].hooks, postUpgrade) :
         LET out == performUpdate(cur[p], rel[p], req[p], store, now, fpre, fkube, fpost) IN
            /\ store' = out.store
            /\ cur' = [cur EXCEPT ![p] = out.cur]
            /\ rel' = [rel EXCEPT ![p] = out.rel]
            /\ klog' = [klog EXCEPT ![p] = out.calls]
            /\ IF out.err # "" THEN Return(p, out.err)
               ELSE IF req[p].dryRun THEN Return(p, "ok")
               ELSE Goto(p, "up_create")
    /\ UNCHANGED <<req, tries, now, started, overlap, raced, hrun, listed, srun, crun>>

\* an UpdateRelease that returns without the Create of the updated release
UpdateCreate_Skipped(p) ==
    /\ pc[p] = "up_create"
    /\ Return(p, "ok")
    /\ UNCHANGED <<store, req, cur, rel, klog, tries, now, started, overlap, raced, hrun, listed, srun, crun>>

\* UpdateRelease: the Create of the updated release
UpdateCreate(p) ==
    /\ pc[p] = "up_create"
    /\ LET w == Create(store, rel[p]) IN
          /\ store' = w.store
          /\ Return(p, Result(w.err))
    /\ UNCHANGED <<req, cur, rel, klog, tries, now, started, overlap, raced, hrun, listed, srun, crun>>

\* UpdateRelease: the Create of the updated release, in a store whose
\* writes can fail with an error of its backend
UpdateCreateFaulty(p) ==
    /\ pc[p] = "up_create"
    /\ \E fstore \in BOOLEAN :
         LET w == IF fstore THEN [store |-> store, err |-> StoreFailure.err]
                  ELSE Create(store, rel[p])
         IN  /\ store' = w.store
             /\ Return(p, Result(w.err))
    /\ UNCHANGED <<req, cur, rel, klog, tries, now, started, overlap, raced, hrun, listed, srun, crun>>

\* RollbackRelease: prepareRollback up to the Deployed lookup
RollbackDeployed(p) ==
    /\ pc[p] = "rb_deployed"
    /\ IF req[p].name = ""
       THEN /\ Return(p, "MissingRelease")
            /\ UNCHANGED cur
       ELSE IF DeployedVersions(store, req[p].name) = {}
       THEN /\ Return(p, "NotFound")
            /\ UNCHANGED cur
       ELSE \E v \in DeployedVersions(store, req[p].name) :
            /\ v < MaxVersion
            /\ cur' = [cur EXCEPT ![p] = store[<<req[p].name, v>>]]
            /\ Goto(p, "rb_previous")
    /\ UNCHANGED <<store, req, rel, klog, tries, now, started, overlap, raced, hrun, listed, srun, crun>>

\* a prepareRollback that looks the current version up as the previous one
RollbackPrevious_SameVersion(p) ==
    /\ pc[p] = "rb_previous"
    /\ LET g == Get(store, req[p].name, cur[p].version) IN
       IF g.err # ""
       THEN /\ Return(p, g.err)
            /\ UNCHANGED rel
       ELSE /\ rel' = [rel EXCEPT ![p] = TargetRelease(cur[p], g.rel, req[p], now)]
            /\ Goto(p, "rb_perform")
    /\ UNCHANGED <<store, req, cur, klog, tries, now, started, overlap, raced, hrun, listed, srun, crun>>

\* RollbackRelease: prepareRollback from the Get of the previous version
RollbackPrevious(p) ==
    /\ pc[p] = "rb_previous"
    /\ LET g == Get(store, req[p].name, cur[p].version - 1) IN
       IF g.err # ""
       THEN /\ Return(p, g.err)
            /\ UNCHANGED rel
       ELSE /\ rel' = [rel EXCEPT ![p] = TargetRelease(cur[p], g.rel, req[p], now)]
            /\ Goto(p, "rb_perform")
    /\ UNCHANGED <<store, req, cur, klog, tries, now, started, overlap, raced, hrun, listed, srun, crun>>

\* RollbackRelease: performRollback
RollbackPerform(p) ==
    /\ pc[p] = "rb_perform"
    /\ \E fpre \in HookChoices(req[p].disableHooks, rel[p].hooks, preRollback),
          fkube \in BOOLEAN,
          fpost \in HookChoices(req[p].disableHooks, rel[p].hooks, postRollback) :
         LET out == performRollback(cur[p], rel[p], req[p], store, now, fpre, fkube, fpost) IN
            /\ store' = out.store
            /\ cur' = [cur EXCEPT ![p] = out.cur]
            /\ rel' = [rel EXCEPT ![p] = out.rel]
            /\ klog' = [klog EXCEPT ![p] = out.calls]
            /\ IF out.err # "" THEN Return(p, out.err)
               ELSE IF req[p].dryRun THEN Return(p, "ok")
               ELSE Goto(p, "rb_create")
    /\ UNCHANGED <<req, tries, now, started, overlap, raced, hrun, listed, srun, crun>>

\* RollbackRelease: the Create of the target release
RollbackCreate(p) ==
    /\ pc[p] = "rb_create"
    /\ LET w == Create(store, rel[p]) IN
          /\ store' = w.store
          /\ Return(p, Result(w.err))
    /\ UNCHANGED <<req, cur, rel, klog, tries, now, started, overlap, raced, hrun, listed, srun, crun>>

\* UninstallRelease: what follows the Deployed lookup when the release
\* fetched is already DELETED
alreadyDeleted(r, rq, s) ==
    IF rq.purge
    THEN LET d == Delete(s, r.name, r.version) IN
         [store |-> d.store, err |-> d.err]
    ELSE [store |-> s, err |-> "AlreadyDeleted"]

\* UninstallRelease: up to the Deployed lookup
UninstallDeployed(p) ==
    /\ pc[p] = "un_deployed"
    /\ IF req[p].name = ""
       THEN /\ Return(p, "MissingRelease")
            /\ UNCHANGED <<store, cur>>
       ELSE IF DeployedVersions(store, req[p].name) = {}
       THEN /\ Return(p, "NotFound")
            /\ UNCHANGED <<store, cur>>
       ELSE \E v \in DeployedVersions(store, req[p].name) :
            LET r == store[<<req[p].name, v>>] IN
            /\ cur' = [cur EXCEPT ![p] = r]
            /\ IF r.status = DELETED
               THEN /\ store' = alreadyDeleted(r, req[p], store).store
                    /\ Return(p, Result(alreadyDeleted(r, req[p], store).err))
               ELSE /\ UNCHANGED store
                    /\ Goto(p, "un_perform")
    /\ UNCHANGED <<req, rel, klog, tries, now, started, overlap, raced, hrun, listed, srun, crun>>

\* UninstallRelease: hooks, deletion of the resources, and the store write
UninstallPerform(p) ==
    /\ pc[p] = "un_perform"
    /\ \E fpre \in HookChoices(req[p].disableHooks, cur[p].hooks, preDelete),
          fvs \in BOOLEAN,
          fdel \in 0 .. Len(cur[p].manifest),
          fpost \in HookChoices(req[p].disableHooks, cur[p].hooks, postDelete) :
         LET out == performUninstall(cur[p], req[p], store, now, fpre, fvs, fdel, fpost) IN
            /\ store' = out.store
            /\ rel' = [rel EXCEPT ![p] = out.rel]
            /\ klog' = [klog EXCEPT ![p] = out.calls]
            /\ Return(p, Result(out.err))
    /\ UNCHANGED <<req, cur, tries, now, started, overlap, raced, hrun, listed, srun, crun>>

\* a live check whose failure is returned whatever the stored status
liveCheck_FailsForAnyStatus(sc, fget) ==
    [calls |-> << <<"Get", "manifest">> >>,
     err |-> IF fget THEN "OrchestratorError" ELSE ""]

\* GetReleaseStatus from kubeCli.Get on: the orchestrator is asked about the
\* manifest, and its error is skipped for a release DELETED or FAILED
liveCheck(sc, fget) ==
    [calls |-> << <<"Get", "manifest">> >>,
     err |-> IF sc \in {DELETED, FAILED} THEN ""
             ELSE IF fget THEN "OrchestratorError" ELSE ""]

\* the release a query fetches: Deployed(name) when the request names no
\* version, Get(name, version) when it does
Fetched(s, rq) ==
    IF rq.version <= 0
    THEN IF DeployedVersions(s, rq.name) = {} THEN {[err |-> "NotFound", rel |-> NoRel]}
         ELSE {[err |-> "", rel |-> s[<<rq.name, v>>]] : v \in DeployedVersions(s, rq.name)}
    ELSE {Get(s, rq.name, rq.version)}

\* GetReleaseStatus
GetStatus(p) ==
    /\ pc[p] = "st_get"
    /\ IF req[p].name = ""
       THEN /\ Return(p, "MissingRelease")
            /\ UNCHANGED <<cur, klog>>
       ELSE \E g \in Fetched(store, req[p]), fget \in BOOLEAN :
            IF g.err # ""
            THEN /\ Return(p, g.err)
                 /\ UNCHANGED <<cur, klog>>
            ELSE LET live == liveCheck(g.rel.status, fget) IN
                 /\ cur' = [cur EXCEPT ![p] = g.rel]
                 /\ klog' = [klog EXCEPT ![p] = live.calls]
                 /\ Return(p, Result(live.err))
    /\ UNCHANGED <<store, req, rel, tries, now, started, overlap, raced, hrun, listed, srun, crun>>

\* every order in which the elements of the set S can stand in a list
Orders(S) ==
    {q \in [1 .. Cardinality(S) -> S] :
        \A i, j \in 1 .. Cardinality(S) : i # j => q[i] # q[j]}

Range(q) == {q[i] : i \in 1 .. Len(q)}

\* the default limit for the number of items returned in a list
ListDefaultLimit == 512

\* a server that lists nothing when the request gives no status code
StatusCodes_AsGiven(l) == l.codes

\* the status codes to list: DEPLOYED when the request gives none
StatusCodes(l) == IF l.codes = {} THEN {DEPLOYED} ELSE l.codes

\* ListFilterAll(pred) with the status predicate: every release whose status
\* is one of codes, in an order the store does not define
ListFilterAll(s, codes) ==
    Orders({s[k] : k \in {x \in DOMAIN s : s[x].status \in codes}})

\* The patterns of the model are a literal text with an optional ^ before it
\* and an optional $ after it, and "(" which regexp.Compile rejects.
Compiles(f) == f # "("

AnchoredFront(f) == SubSeq(f, 1, 1) = "^"

AnchoredBack(f) == SubSeq(f, Len(f), Len(f)) = "$"

Literal(f) ==
    SubSeq(f, IF AnchoredFront(f) THEN 2 ELSE 1,
              IF AnchoredBack(f) THEN Len(f) - 1 ELSE Len(f))

\* preg.MatchString(name): the literal occurs in the name, at its front or
\* at its back when the pattern is anchored there
MatchString(f, n) ==
    LET k == Len(Literal(f)) IN
    \E i \in 1 .. Len(n) - k + 1 :
        /\ SubSeq(n, i, i + k - 1) = Literal(f)
        /\ AnchoredFront(f) => i = 1
        /\ AnchoredBack(f) => i + k - 1 = Len(n)

filterReleases(f, rels) ==
    IF ~Compiles(f) THEN [err |-> "RegexError", rels |-> rels]
    ELSE [err |-> "", rels |-> SelectSeq(rels, LAMBDA r : MatchString(f, r.name))]

\* a < b on names; the names of the model are a front part of one another
NameLess(a, b) == Len(a) < Len(b) /\ SubSeq(b, 1, Len(a)) = a

\* Less of byName and of byDate
Less(sortBy, a, b) ==
    IF sortBy = "NAME" THEN NameLess(a.name, b.name) ELSE a.last < b.last

\* sort.Sort, which is not stable: any order of the releases in which no
\* release stands before a release that is Less; no sort for another SortBy
Sorts(rels, sortBy) ==
    IF sortBy \notin {"NAME", "LAST_RELEASED"} THEN {rels}
    ELSE {q \in Orders(Range(rels)) :
             \A i, j \in 1 .. Len(rels) : i < j => ~Less(sortBy, q[j], q[i])}

\* the list the page is cut from: filtered, sorted, turned round for DESC
SortedLists(s, l) ==
    {IF l.desc THEN Reverse(q) ELSE q :
        q \in UNION {Sorts(IF l.filter = "" THEN b ELSE filterReleases(l.filter, b).rels,
                           l.sortBy) : b \in ListFilterAll(s, StatusCodes(l))}}

\* a pager whose next is the last release of the page
Page_NextInsidePage(rels, l) ==
    LET hits  == {i \in 1 .. Len(rels) : rels[i].name = l.offset}
        i     == CHOOSE x \in hits : \A y \in hits : y <= x
        from  == IF l.offset = "" THEN rels ELSE SubSeq(rels, i, Len(rels))
        limit == IF l.limit = 0 THEN ListDefaultLimit ELSE l.limit
    IN  IF l.offset # "" /\ hits = {}
        THEN [err |-> "OffsetNotFound", resp |-> NoResponse]
        ELSE [err |-> "",
              resp |-> IF Len(from) > limit
                       THEN [next |-> from[limit].name, count |-> limit,
                             total |-> Len(rels), sorted |-> rels,
                             releases |-> SubSeq(from, 1, limit)]
                       ELSE [next |-> "", count |-> Len(from),
                             total |-> Len(rels), sorted |-> rels,
                             releases |-> from]]

\* offset, limit and next: the page starts at the last release whose name is
\* the offset, holds limit releases at most, and next names the one after it
Page(rels, l) ==
    LET hits  == {i \in 1 .. Len(rels) : rels[i].name = l.offset}
        i     == CHOOSE x \in hits : \A y \in hits : y <= x
        from  == IF l.offset = "" THEN rels ELSE SubSeq(rels, i, Len(rels))
        limit == IF l.limit = 0 THEN ListDefaultLimit ELSE l.limit
    IN  IF l.offset # "" /\ hits = {}
        THEN [err |-> "OffsetNotFound", resp |-> NoResponse]
        ELSE [err |-> "",
              resp |-> IF Len(from) > limit
                       THEN [next |-> from[limit + 1].name, count |-> limit,
                             total |-> Len(rels), sorted |-> rels,
                             releases |-> SubSeq(from, 1, limit)]
                       ELSE [next |-> "", count |-> Len(from),
                             total |-> Len(rels), sorted |-> rels,
                             releases |-> from]]

\* ListReleases after the version check: one response, or an error
ListReleases(p) ==
    /\ pc[p] = "ls_list"
    /\ IF req[p].list.filter # "" /\ ~Compiles(req[p].list.filter)
       THEN /\ Return(p, "RegexError")
            /\ UNCHANGED listed
       ELSE \E q \in SortedLists(store, req[p].list) :
            LET page == Page(q, req[p].list) IN
            /\ listed' = [listed EXCEPT ![p] = page.resp]
            /\ Return(p, Result(page.err))
    /\ UNCHANGED <<store, req, cur, rel, klog, tries, now, started, overlap, raced, hrun,
                   srun, crun>>

\* a step of a handler that changes releases and is under way
Handle(p) ==
    \/ InstallPrepare(p)
    \/ InstallPerform(p)
    \/ UpdatePrepare(p)
    \/ UpdatePerform(p)
    \/ UpdateCreate(p)
    \/ RollbackDeployed(p)
    \/ RollbackPrevious(p)
    \/ RollbackPerform(p)
    \/ RollbackCreate(p)
    \/ UninstallDeployed(p)
    \/ UninstallPerform(p)

\* Concurrent handlers: every task takes requests, whenever it is free.  The
\* requests are the ones that reach the store; the clock stands still.
ConcurrentRequests ==
    {rq \in Requests :
        /\ rq.compatible /\ ~rq.dryRun /\ ~rq.disableHooks
        /\ rq.name \in Names /\ rq.chart \in {"c2", NilChart}
        /\ rq.version = 0}

Next == \E p \in Procs : Start(p, ConcurrentRequests) \/ Handle(p)

Spec == Init /\ [][Next]_vars

\* Concurrent handlers while the clock moves on.
TimedNext ==
    \/ Tick
    \/ Next

TimedSpec == Init /\ [][TimedNext]_vars

\* One handler at a time: a single task takes every kind of request, one
\* after the other, while the clock moves on.
SeqNext ==
    \/ Tick
    \/ started < MaxSeqOps /\ Start("t1", Requests)
    \/ Handle("t1")

SeqSpec == Init /\ [][SeqNext]_vars

\* Name allocation: a single task takes installs that ask for a name at the
\* length limit, for one over it, or for none, while moniker generates a
\* short name or a long one.
NameRequests ==
    {[NoReq EXCEPT !.op = "install", !.name = n, !.chart = "c2", !.reuse = ru] :
        n \in {"", Name14, Name15}, ru \in BOOLEAN}

NameNext ==
    \/ Start("t1", NameRequests)
    \/ InstallPrepareFrom("t1", Monikers)
    \/ InstallPerform("t1")

NameSpec == Init /\ [][NameNext]_vars

\* the lists asked for: every filter and order for the whole list, and
\* every page of the list of all releases
CodeSets == {{}, {SUPERSEDED, DELETED}, {DEPLOYED, SUPERSEDED, DELETED, FAILED}}

Filters == {"", "^a$", "b", "("}

ListRequests ==
    {[NoReq EXCEPT !.op = "list",
                   !.list = [NoList EXCEPT !.codes = c, !.filter = f,
                                           !.sortBy = sb, !.desc = d]] :
        c \in CodeSets, f \in Filters, sb \in {"UNKNOWN", "NAME", "LAST_RELEASED"},
        d \in BOOLEAN}
    \cup
    {[NoReq EXCEPT !.op = "list",
                   !.list = [NoList EXCEPT !.codes = {DEPLOYED, SUPERSEDED, DELETED, FAILED},
                                           !.sortBy = sb, !.desc = d,
                                           !.offset = o, !.limit = n]] :
        sb \in {"NAME", "LAST_RELEASED"}, d \in BOOLEAN,
        o \in {"", "a", "zz"}, n \in 0 .. 2}

\* A store whose operations can fail with an error of its backend: a single
\* task takes installs that ask for a name or for none, with and without
\* reuse, and upgrades.
FaultRequests ==
    {[NoReq EXCEPT !.op = "install", !.name = n, !.chart = "c2", !.reuse = ru] :
        n \in Names \cup {""}, ru \in BOOLEAN}
    \cup {rq \in UpdateRequests : rq.chart = "c1" /\ rq.name # "" /\ rq.compatible}

FaultNext ==
    \/ Start("t1", FaultRequests)
    \/ InstallPrepareWith("t1", Monikers, BOOLEAN)
    \/ InstallPerform("t1")
    \/ UpdatePrepare("t1")
    \/ UpdatePerform("t1")
    \/ UpdateCreateFaulty("t1")

FaultSpec == Init /\ [][FaultNext]_vars

\* Queries: a single task takes plain installs, upgrades and uninstalls, by
\* which the store fills, and the requests that read it, while the clock
\* moves on and moniker generates a short name or a long one.
ReadRequests ==
    {rq \in InstallRequests :
        rq.chart = "c2" /\ ~rq.reuse /\ ~rq.dryRun /\ ~rq.disableHooks}
    \cup {rq \in UpdateRequests :
        rq.chart = "c2" /\ rq.name # "" /\ ~rq.dryRun /\ ~rq.disableHooks}
    \cup {rq \in UninstallRequests :
        rq.name # "" /\ ~rq.purge /\ ~rq.disableHooks}
    \cup StatusRequests
    \cup ListRequests

ReadNext ==
    \/ Tick
    \/ started < MaxSeqOps /\ Start("t1", ReadRequests)
    \/ InstallPrepareFrom("t1", Monikers)
    \/ InstallPerform("t1")
    \/ UpdatePrepare("t1")
    \/ UpdatePerform("t1")
    \/ UpdateCreate("t1")
    \/ UninstallDeployed("t1")
    \/ UninstallPerform("t1")
    \/ GetStatus("t1")
    \/ ListReleases("t1")

ReadSpec == Init /\ [][ReadNext]_vars

\* Paging: a client of ListReleases walks through a list by cursor.  It asks
\* for the first page with no offset, and for each following page with the
\* offset set to the next of the response before, until next is empty.  The
\* store does not change meanwhile and lists its releases in one order, so
\* that every request of a walk sorts the same list.
PagedLists ==
    {[NoList EXCEPT !.codes = c, !.sortBy = sb, !.desc = d, !.limit = n] :
        c \in {{}, {DEPLOYED, SUPERSEDED}}, sb \in {"UNKNOWN", "NAME"},
        d \in BOOLEAN, n \in 1 .. 2}

PageStart ==
    /\ crun = NoCommand
    /\ pc["t1"] \in {"idle", "done"}
    /\ \E l \in PagedLists : \E q \in SortedLists(store, l) :
         crun' = [cmd |-> "page", list |-> l, sorted |-> q, pages |-> 0,
                  got |-> << >>, done |-> FALSE]
    /\ UNCHANGED <<store, pc, req, cur, rel, res, klog, tries, now, started, overlap,
                   raced, hrun, listed, srun>>

\* one ListReleases request of the walk and its response
PageStep ==
    /\ crun.cmd = "page" /\ ~crun.done
    /\ crun.sorted \in SortedLists(store, crun.list)
    /\ LET page == Page(crun.sorted, crun.list) IN
       crun' = IF page.err # "" THEN [crun EXCEPT !.done = TRUE]
               ELSE [crun EXCEPT !.got = @ \o page.resp.releases,
                                 !.pages = @ + 1,
                                 !.list = [@ EXCEPT !.offset = page.resp.next],
                                 !.done = page.resp.next = ""]
    /\ UNCHANGED <<store, pc, req, cur, rel, res, klog, tries, now, started, overlap,
                   raced, hrun, listed, srun>>

PageRequests ==
    {rq \in InstallRequests :
        rq.chart = "c2" /\ ~rq.reuse /\ ~rq.dryRun /\ ~rq.disableHooks}
    \cup {rq \in UpdateRequests :
        rq.chart = "c2" /\ rq.name # "" /\ ~rq.dryRun /\ ~rq.disableHooks
        /\ rq.compatible}

PageNext ==
    \/ crun = NoCommand /\ started < MaxSeqOps /\ Start("t1", PageRequests)
    \/ crun = NoCommand /\ InstallPrepareFrom("t1", Monikers)
    \/ crun = NoCommand /\ InstallPerform("t1")
    \/ crun = NoCommand /\ UpdatePrepare("t1")
    \/ crun = NoCommand /\ UpdatePerform("t1")
    \/ crun = NoCommand /\ UpdateCreate("t1")
    \/ PageStart
    \/ PageStep

PageSpec == Init /\ [][PageNext]_vars

\* execHook by itself: a server at rest runs the executor once on a list of
\* hooks, for an event, with an orchestrator that fails at a chosen call.
HookInit ==
    /\ store = [k \in {} |-> NoRel]
    /\ pc = [p \in Procs |-> "idle"]
    /\ req = [p \in Procs |-> NoReq]
    /\ cur = [p \in Procs |-> NoRel]
    /\ rel = [p \in Procs |-> NoRel]
    /\ res = [p \in Procs |-> "none"]
    /\ klog = [p \in Procs |-> << >>]
    /\ tries = [p \in Procs |-> 0]
    /\ now = 1
    /\ started = 0
    /\ overlap = [p \in Procs |-> {}]
    /\ raced = FALSE
    /\ hrun \in HookRuns
    /\ listed = [p \in Procs |-> NoResponse]
    /\ srun = NoSort
    /\ crun = NoCommand

ExecHook ==
    /\ hrun.out = NoOutcome
    /\ hrun' = [hrun EXCEPT !.out = execHook(hrun.hooks, hrun.event, hrun.fail, now)]
    /\ UNCHANGED <<store, pc, req, cur, rel, res, klog, tries, now, started,
                   overlap, raced, listed, srun, crun>>

HookNext == ExecHook

HookSpec == HookInit /\ [][HookNext]_vars

\* sortManifests by itself: a server at rest sorts a list of rendered files
\* for install, joins them into the manifest, and sorts that for uninstall.
SortInit ==
    /\ store = [k \in {} |-> NoRel]
    /\ pc = [p \in Procs |-> "idle"]
    /\ req = [p \in Procs |-> NoReq]
    /\ cur = [p \in Procs |-> NoRel]
    /\ rel = [p \in Procs |-> NoRel]
    /\ res = [p \in Procs |-> "none"]
    /\ klog = [p \in Procs |-> << >>]
    /\ tries = [p \in Procs |-> 0]
    /\ now = 1
    /\ started = 0
    /\ overlap = [p \in Procs |-> {}]
    /\ raced = FALSE
    /\ hrun = NoRun
    /\ listed = [p \in Procs |-> NoResponse]
    /\ srun \in {[NoSort EXCEPT !.files = f] : f \in RenderedFiles}
    /\ crun = NoCommand

SortManifests ==
    /\ ~srun.sorted
    /\ LET applied == sortManifests(srun.files, InstallOrder) IN
       srun' = [srun EXCEPT !.applied = applied,
                            !.deleted = DeleteOrder(Document(applied)),
                            !.sorted = TRUE]
    /\ UNCHANGED <<store, pc, req, cur, rel, res, klog, tries, now, started,
                   overlap, raced, hrun, listed, crun>>

SortNext == SortManifests

SortSpec == SortInit /\ [][SortNext]_vars

----------------------------------------------------------------------------
(* The chart repository index *)

HasSuffix(str, suffix) ==
    /\ Len(str) >= Len(suffix)
    /\ SubSeq(str, Len(str) - Len(suffix) + 1, Len(str)) = suffix

\* strings.TrimSuffix
TrimSuffix(str, suffix) ==
    IF HasSuffix(str, suffix) THEN SubSeq(str, 1, Len(str) - Len(suffix)) ELSE str

\* The file names of the model, in the order filepath.Glob lists them.
FileNames == <<".tgz", "a.tgz", "a.tgz.tgz", "a.txt", "b.tgz">>

\* what a file holds: a packaged chart with the metadata m1 or m2, or
\* something chartutil.Load fails on
NotAChart == "none"
Contents == {NotAChart, "m1", "m2"}

\* a flat directory: file name -> what the file holds
Directories ==
    UNION {[S -> Contents] : S \in SUBSET {FileNames[i] : i \in 1 .. Len(FileNames)}}

\* filepath.Glob(dir/*.tgz)
Glob(dir) == SelectSeq(FileNames, LAMBDA n : n \in DOMAIN dir /\ HasSuffix(n, ".tgz"))

NoIndex == [k \in {} |-> ""]

\* an Add that keys the entry by the file name as it is
Add_KeepsSuffix(index, md, filename, baseURL, digest) ==
    [k \in DOMAIN index \cup {filename} |->
        IF k = filename
        THEN [name |-> filename, url |-> baseURL \o "/" \o filename, created |-> "now",
              removed |-> FALSE, digest |-> digest, chartfile |-> md]
        ELSE index[k]]

\* IndexFile.Add
Add(index, md, filename, baseURL, digest) ==
    LET name == TrimSuffix(filename, ".tgz") IN
    [k \in DOMAIN index \cup {name} |->
        IF k = name
        THEN [name |-> name, url |-> baseURL \o "/" \o filename, created |-> "now",
              removed |-> FALSE, digest |-> digest, chartfile |-> md]
        ELSE index[k]]

\* the loop of IndexDirectory over the archives; the digest of the file
\* named fdigest cannot be computed
RECURSIVE indexLoop(_, _, _, _, _)
indexLoop(archives, dir, baseURL, fdigest, index) ==
    IF archives = << >> THEN [index |-> index, err |-> ""]
    ELSE LET fname == Head(archives) IN
         IF dir[fname] = NotAChart
         THEN indexLoop(Tail(archives), dir, baseURL, fdigest, index)
         ELSE IF fname = fdigest THEN [index |-> index, err |-> "DigestError"]
         ELSE indexLoop(Tail(archives), dir, baseURL, fdigest,
                        Add(index, dir[fname], fname, baseURL, "sha:" \o dir[fname]))

IndexDirectory(dir, baseURL, fdigest) ==
    indexLoop(Glob(dir), dir, baseURL, fdigest, NoIndex)

\* the fields of a ChartRef that yaml writes: created, removed and digest
\* are left out when they are empty
MarshalRef(cr) ==
    {<<"name", cr.name>>, <<"url", cr.url>>, <<"chartfile", cr.chartfile>>}
    \cup (IF cr.created = "" THEN {} ELSE {<<"created", cr.created>>})
    \cup (IF cr.removed THEN {<<"removed", "true">>} ELSE {})
    \cup (IF cr.digest = "" THEN {} ELSE {<<"digest", cr.digest>>})

\* the index file: yaml.Marshal of the entries, a mapping of name to fields
Marshal(index) == [k \in DOMAIN index |-> MarshalRef(index[k])]

\* the value of a field in the written fields, or the zero value
Field(fields, f, zero) ==
    IF \E x \in fields : x[1] = f THEN (CHOOSE x \in fields : x[1] = f)[2] ELSE zero

\* UnmarshalYAML: the entries are the mapping read from the document
UnmarshalYAML(doc) ==
    [k \in DOMAIN doc |->
        [name |-> Field(doc[k], "name", ""), url |-> Field(doc[k], "url", ""),
         created |-> Field(doc[k], "created", ""),
         removed |-> Field(doc[k], "removed", "false") = "true",
         digest |-> Field(doc[k], "digest", ""),
         chartfile |-> Field(doc[k], "chartfile", "")]]

\* LoadIndexFile
LoadIndexFile(doc) == UnmarshalYAML(doc)

\* helm repo index by itself: a directory is indexed, the index is written
\* to index.yaml and loaded back.
IndexInit ==
    /\ store = [k \in {} |-> NoRel]
    /\ pc = [p \in Procs |-> "idle"]
    /\ req = [p \in Procs |-> NoReq]
    /\ cur = [p \in Procs |-> NoRel]
    /\ rel = [p \in Procs |-> NoRel]
    /\ res = [p \in Procs |-> "none"]
    /\ klog = [p \in Procs |-> << >>]
    /\ tries = [p \in Procs |-> 0]
    /\ now = 1
    /\ started = 0
    /\ overlap = [p \in Procs |-> {}]
    /\ raced = FALSE
    /\ hrun = NoRun
    /\ listed = [p \in Procs |-> NoResponse]
    /\ srun = NoSort
    /\ crun \in {[cmd |-> "index", dir |-> d, indexed |-> FALSE] : d \in Directories}

RepoIndex ==
    /\ crun.cmd = "index" /\ ~crun.indexed
    /\ \E fdigest \in {""} \cup DOMAIN crun.dir :
         LET out == IndexDirectory(crun.dir, "http://r", fdigest) IN
         crun' = [cmd |-> "index", dir |-> crun.dir, indexed |-> TRUE,
                  index |-> out.index, err |-> out.err,
                  loaded |-> IF out.err = "" THEN LoadIndexFile(Marshal(out.index))
                             ELSE NoIndex]
    /\ UNCHANGED <<store, pc, req, cur, rel, res, klog, tries, now, started,
                   overlap, raced, hrun, listed, srun>>

IndexNext == RepoIndex

IndexSpec == IndexInit /\ [][IndexNext]_vars

----------------------------------------------------------------------------
(* helm install --set: the values flag of the client *)

\* strings.Index(s, c) for a separator of one character, counted from 1;
\* 0 when c does not occur
IndexOf(s, c) ==
    LET hits == {i \in 1 .. Len(s) : SubSeq(s, i, i) = c} IN
    IF hits = {} THEN 0 ELSE CHOOSE i \in hits : \A j \in hits : i <= j

\* strings.Split(s, c)
RECURSIVE Split(_, _)
Split(s, c) ==
    LET i == IndexOf(s, c) IN
    IF i = 0 THEN <<s>>
    ELSE <<SubSeq(s, 1, i - 1)>> \o Split(SubSeq(s, i + 1, Len(s)), c)

\* the values of the map: a text <<"string", v>>, the boolean true, or a map
\* of its own
BoolTrue == <<"bool", "true">>
MapNode == <<"map", "">>

\* splitPair: strings.SplitN(item, "=", 2); an item without "=" is true
splitPair(item) ==
    LET i == IndexOf(item, "=") IN
    IF i = 0 THEN [name |-> item, val |-> BoolTrue]
    ELSE [name |-> SubSeq(item, 1, i - 1),
          val |-> <<"string", SubSeq(item, i + 1, Len(item))>>]

\* v.pairs and the maps nested in it, as a function from the path of a key
\* to what the key holds
NoPairs == [k \in {} |-> MapNode]

\* path q lies below path k
Below(q, k) == Len(q) > Len(k) /\ SubSeq(q, 1, Len(k)) = k

\* (*current)[name] = val: whatever the key held before is gone
Assign(pairs, k, val) ==
    [q \in {x \in DOMAIN pairs : ~Below(x, k)} \cup {k} |->
        IF q = k THEN val ELSE pairs[q]]

\* the loop over names[i ..] with current at the map of path at: the last
\* name is set; a name that is absent gets a new map and current moves
\* into it; current moves into a map that is there; it stays where it is
\* when the name holds something that is no map
RECURSIVE walk(_, _, _, _, _)
walk(pairs, at, names, i, val) ==
    LET k == Append(at, names[i]) IN
    IF i = Len(names) THEN Assign(pairs, k, val)
    ELSE IF k \notin DOMAIN pairs
    THEN walk(Assign(pairs, k, MapNode), k, names, i + 1, val)
    ELSE IF pairs[k] = MapNode THEN walk(pairs, k, names, i + 1, val)
    ELSE walk(pairs, at, names, i + 1, val)

RECURSIVE setItems(_, _, _)
setItems(pairs, items, j) ==
    IF j > Len(items) THEN pairs
    ELSE LET pr == splitPair(items[j]) IN
         setItems(walk(pairs, << >>, Split(pr.name, "."), 1, pr.val), items, j + 1)

\* values.Set(data)
Set(data) == setItems(NoPairs, Split(data, ","), 1)

\* the pairs a user gives: a path of names, and a value or none
GivenPairs ==
    {[path |-> <<"a">>, val |-> "1"],
     [path |-> <<"a", "b">>, val |-> "2"],
     [path |-> <<"a", "b", "c">>, val |-> "x=y"],
     [path |-> <<"b">>, val |-> ""],
     [path |-> <<"c", "a">>, val |-> "3"]}

RECURSIVE Join(_, _)
Join(q, sep) ==
    IF Len(q) = 0 THEN ""
    ELSE IF Len(q) = 1 THEN q[1]
    ELSE q[1] \o sep \o Join(Tail(q), sep)

\* the text of an argument as the user types it: the names of a pair joined
\* by ".", then "=" and the value if there is one, the pairs joined by ","
ArgText(gs) ==
    LET PairText(g) == IF g.val = "" THEN Join(g.path, ".")
                       ELSE Join(g.path, ".") \o "=" \o g.val
    IN  Join([j \in 1 .. Len(gs) |-> PairText(gs[j])], ",")

SetInit ==
    /\ store = [k \in {} |-> NoRel]
    /\ pc = [p \in Procs |-> "idle"]
    /\ req = [p \in Procs |-> NoReq]
    /\ cur = [p \in Procs |-> NoRel]
    /\ rel = [p \in Procs |-> NoRel]
    /\ res = [p \in Procs |-> "none"]
    /\ klog = [p \in Procs |-> << >>]
    /\ tries = [p \in Procs |-> 0]
    /\ now = 1
    /\ started = 0
    /\ overlap = [p \in Procs |-> {}]
    /\ raced = FALSE
    /\ hrun = NoRun
    /\ listed = [p \in Procs |-> NoResponse]
    /\ srun = NoSort
    /\ crun \in {[cmd |-> "set", given |-> gs, arg |-> ArgText(gs),
                   parsed |-> FALSE, pairs |-> NoPairs] :
                    gs \in UNION {[1 .. n -> GivenPairs] : n \in 1 .. MaxPairs}}

\* the flag is parsed: --set arg
SetValues ==
    /\ crun.cmd = "set" /\ ~crun.parsed
    /\ crun' = [crun EXCEPT !.parsed = TRUE, !.pairs = Set(crun.arg)]
    /\ UNCHANGED <<store, pc, req, cur, rel, res, klog, tries, now, started,
                   overlap, raced, hrun, listed, srun>>

SetNext == SetValues

SetSpec == SetInit /\ [][SetNext]_vars

\* no handler is in progress
Quiescent == \A p \in Procs : pc[p] \in {"idle", "done"}

TypeOK ==
    /\ \A k \in DOMAIN store : store[k].name = k[1] /\ store[k].version = k[2]
    /\ started \in 0 .. MaxOps

----------------------------------------------------------------------------
(* Properties *)

Done(p, op) == pc[p] = "done" /\ req[p].op = op /\ req[p].compatible

\* the handler of p ran for real (no dry run) and returned success
Succeeded(p, op) == Done(p, op) /\ ~req[p].dryRun /\ res[p] = "ok"

StatusOf(n, v) == IF Has(store, n, v) THEN store[<<n, v>>].status ELSE "absent"

\* C1: in every reachable store state, under any interleaving of the
\* handlers, each release name has at most one stored version whose status
\* is DEPLOYED.
C1_AtMostOneDeployed ==
    \A n \in Names : Cardinality(DeployedVersions(store, n)) <= 1

\* C2: when two non-dry-run installs of the same requested name with
\* reuse_name=false run concurrently, at most one of them returns success.
C2_ConcurrentInstallOneWinner ==
    \A p, q \in Procs :
        ( /\ p # q
          /\ Done(p, "install") /\ Done(q, "install")
          /\ q \in overlap[p] /\ p \in overlap[q]
          /\ req[p].name # "" /\ req[p].name = req[q].name
          /\ ~req[p].reuse /\ ~req[q].reuse
          /\ ~req[p].dryRun /\ ~req[q].dryRun )
        => ~(res[p] = "ok" /\ res[q] = "ok")

\* C3: after a non-dry-run install returns success, whatever name was
\* requested and whatever reuse_name was, the store holds version 1 of the
\* returned name with status DEPLOYED, and it is what Deployed(name) returns.
C3_InstallStoresDeployed ==
    \A p \in Procs :
        Succeeded(p, "install") =>
            /\ StatusOf(rel[p].name, 1) = DEPLOYED
            /\ DeployedVersions(store, rel[p].name) = {1}

C5_VersionsGapFree ==
    \A n \in Names :
        History(store, n) = 1 .. Cardinality(History(store, n))

\* C6: after a successful non-dry-run upgrade of a name whose deployed
\* version is k, the store holds version k+1 with status DEPLOYED and
\* version k with status SUPERSEDED.
C6_UpgradeSupersedes ==
    \A p \in Procs :
        Succeeded(p, "update") =>
            /\ rel[p].version = cur[p].version + 1
            /\ StatusOf(req[p].name, cur[p].version + 1) = DEPLOYED
            /\ StatusOf(req[p].name, cur[p].version) = SUPERSEDED

\* C6 happens: an upgrade of version 2 has returned success
C6_Witness ==
    \E p \in Procs :
        /\ Succeeded(p, "update") /\ cur[p].version = 2
        /\ StatusOf(req[p].name, 3) = DEPLOYED

\* the content a rollback copies from the previous release
Content(r) == <<r.chart, r.config, r.manifest>>

\* the hooks of a release without the time of their last run
HookIdentity(hs) == [i \in 1 .. Len(hs) |-> <<hs[i].name, hs[i].events>>]

\* what a successful rollback leaves, but for the hooks: version k+1,
\* DEPLOYED, with the content of version k-1, and version k SUPERSEDED
RolledBack(p) ==
    LET n == req[p].name
        k == cur[p].version
    IN  /\ rel[p].version = k + 1
        /\ Has(store, n, k - 1)
        /\ StatusOf(n, k + 1) = DEPLOYED
        /\ StatusOf(n, k) = SUPERSEDED
        /\ Content(store[<<n, k + 1>>]) = Content(store[<<n, k - 1>>])

\* C7 as stated: a successful rollback of a name whose deployed version is k
\* creates version k+1 with the chart, config, manifest and hooks of stored
\* version k-1, DEPLOYED, and marks version k SUPERSEDED, whatever the
\* version field of the request.
C7_RollbackCopiesPrevious ==
    \A p \in Procs :
        Succeeded(p, "rollback") =>
            /\ RolledBack(p)
            /\ store[<<req[p].name, cur[p].version + 1>>].hooks
                  = store[<<req[p].name, cur[p].version - 1>>].hooks

\* C7 as amended: the same, with the hooks of version k+1 equal to those of
\* version k-1 up to last_run, which is the time of the rollback for the
\* hooks the rollback ran and that of version k-1 for the others.
C7_RollbackCopiesUpToLastRun ==
    \A p \in Procs :
        Succeeded(p, "rollback") =>
            LET new == store[<<req[p].name, cur[p].version + 1>>].hooks
                old == store[<<req[p].name, cur[p].version - 1>>].hooks
            IN  /\ RolledBack(p)
                /\ HookIdentity(new) = HookIdentity(old)
                /\ \A i \in 1 .. Len(new) :
                      IF ~req[p].disableHooks
                         /\ new[i].events \cap {preRollback, postRollback} # {}
                      THEN new[i].lastRun >= rel[p].last
                      ELSE new[i].lastRun = old[i].lastRun

\* C7 happens: a rollback that names version 2 has returned success, having
\* run hooks, from a previous version whose content differs from the current
C7_Witness ==
    \E p \in Procs :
        /\ Succeeded(p, "rollback") /\ req[p].version = 2
        /\ klog[p] # << >> /\ Head(klog[p])[1] = "Create"
        /\ Content(store[<<req[p].name, 1>>]) # Content(store[<<req[p].name, 2>>])
        /\ store[<<req[p].name, 3>>].hooks # store[<<req[p].name, 1>>].hooks

\* C8: a rollback of a name whose deployed version is 1 fails with NotFound,
\* calls no hook and no orchestrator Update, and leaves the store unchanged.
C8_RollbackWithoutPrevious ==
    [][\A p \in Procs :
          /\ (pc[p] = "rb_deployed" /\ pc'[p] # pc[p]) =>
                 (store' = store /\ klog'[p] = << >>)
          /\ (pc[p] = "rb_previous" /\ cur[p].version = 1 /\ pc'[p] # pc[p]) =>
                 /\ pc'[p] = "done" /\ res'[p] = "NotFound"
                 /\ store' = store /\ klog'[p] = << >>]_vars

\* C8 happens: a rollback found version 1 deployed and returned NotFound
C8_Witness ==
    \E p \in Procs :
        /\ Done(p, "rollback") /\ cur[p].version = 1
        /\ res[p] = "NotFound"

\* C9: when a non-dry-run install fails after preparation (pre-install hook,
\* orchestrator Create or post-install hook), the release is in the store
\* with status FAILED and the error is returned.
C9_FailedInstallRecorded ==
    \A p \in Procs :
        (Done(p, "install") /\ res[p] \in {"HookFailed", "OrchestratorError"}) =>
            StatusOf(rel[p].name, 1) = FAILED

\* C10: when an upgrade or a rollback fails during apply (hook error or
\* orchestrator Update error), a record of the new version is in the store
\* with status FAILED.
C10_FailedSwitchRecorded ==
    \A p \in Procs :
        ((Done(p, "update") \/ Done(p, "rollback"))
            /\ res[p] \in {"HookFailed", "OrchestratorError"}) =>
            StatusOf(req[p].name, cur[p].version + 1) = FAILED

\* the handler of p is under way
Running(p) == pc[p] \notin {"idle", "done"}

\* C11: an install, upgrade or rollback with dry_run=true returns the release
\* it constructed, leaves the store unchanged, and makes no orchestrator
\* call: no Create, no Update, no Delete, no WatchUntilReady.
C11_DryRunLeavesNoTrace ==
    [][\A p \in Procs :
          ( /\ req[p].op \in {"install", "update", "rollback"}
            /\ req[p].dryRun /\ Running(p) /\ pc'[p] # pc[p] ) =>
              /\ store' = store
              /\ klog'[p] = << >>
              /\ pc[p] \in {"in_perform", "up_perform", "rb_perform"} =>
                    /\ pc'[p] = "done" /\ res'[p] = "ok"
                    /\ rel'[p] = rel[p]
                    /\ rel[p].name # "" /\ rel[p].status = UNKNOWN
                    /\ rel[p].version =
                          IF req[p].op = "install" THEN 1 ELSE cur[p].version + 1
              /\ res'[p] = "ok" =>
                    pc[p] \in {"in_perform", "up_perform", "rb_perform"}]_vars

\* C11 happens: a dry run of an upgrade of a deployed release has returned
\* the release it built, and the store does not hold it
C11_Witness ==
    \E p \in Procs :
        /\ Done(p, "update") /\ req[p].dryRun /\ res[p] = "ok"
        /\ rel[p].version = 2 /\ rel[p].chart # cur[p].chart
        /\ ~Has(store, rel[p].name, 2)

\* the orchestrator calls of a run of the hooks of hs for event ev in which
\* every hook completes
RECURSIVE CompleteRun(_, _)
CompleteRun(hs, ev) ==
    IF hs = << >> THEN << >>
    ELSE (IF ev \in Head(hs).events
          THEN << <<"Create", Head(hs).name>>, <<"WatchUntilReady", Head(hs).name>> >>
          ELSE << >>)
         \o CompleteRun(Tail(hs), ev)

IsPrefix(a, b) == Len(a) <= Len(b) /\ a = SubSeq(b, 1, Len(a))

\* the orchestrator calls of the handler of p in the order the phases are to
\* run: every pre-hook, the manifest, every post-hook
PhasesInOrder(p) ==
    LET op == req[p].op
        pre == IF op = "install" THEN preInstall
               ELSE IF op = "update" THEN preUpgrade ELSE preRollback
        post == IF op = "install" THEN postInstall
                ELSE IF op = "update" THEN postUpgrade ELSE postRollback
        apply == IF op = "install" THEN <<"Create", "manifest">>
                 ELSE <<"Update", "manifest">>
    IN  CompleteRun(rel[p].hooks, pre) \o <<apply>> \o CompleteRun(rel[p].hooks, post)

\* C12: within one install, upgrade or rollback with hooks enabled, every
\* pre-hook completes before the manifest is applied, the manifest is applied
\* before any post-hook is submitted, and every post-hook completes before
\* the store write that records the release as DEPLOYED.
C12_PhasesInOrder ==
    \A p \in Procs :
        ( /\ req[p].op \in {"install", "update", "rollback"}
          /\ ~req[p].disableHooks /\ ~req[p].dryRun /\ rel[p] # NoRel ) =>
            /\ IsPrefix(klog[p], PhasesInOrder(p))
            /\ StatusOf(rel[p].name, rel[p].version) = DEPLOYED =>
                  klog[p] = PhasesInOrder(p)

\* C12 happens: an install with a pre-install and a post-install hook has
\* stored its release as DEPLOYED
C12_Witness ==
    \E p \in Procs :
        /\ Succeeded(p, "install") /\ ~req[p].disableHooks
        /\ Matching(rel[p].hooks, preInstall) # {}
        /\ Matching(rel[p].hooks, postInstall) # {}
        /\ StatusOf(rel[p].name, 1) = DEPLOYED
        /\ Len(klog[p]) = 5

\* C13: after a successful uninstall with purge=false of a deployed release,
\* the returned release has status DELETED with info.deleted set,
\* Get(name, version) succeeds with status DELETED, and Deployed(name) fails
\* with NotFound.  Stated of the step on which the uninstall returns, for an
\* uninstall that no other handler has overlapped.
C13_UninstallKeepsDeletedRecord ==
    [][\A p \in Procs :
          ( /\ pc[p] = "un_perform" /\ pc'[p] = "done" /\ res'[p] = "ok"
            /\ ~req[p].purge /\ overlap[p] = {} ) =>
              LET g == Get(store', req[p].name, cur[p].version) IN
              /\ rel'[p].name = req[p].name /\ rel'[p].version = cur[p].version
              /\ rel'[p].status = DELETED /\ rel'[p].deleted # 0
              /\ g.err = "" /\ g.rel.status = DELETED /\ g.rel.deleted # 0
              /\ DeployedVersions(store', req[p].name) = {}]_vars

\* what an install of name n, requested now and run with no other handler
\* and no failure of the renderer or the orchestrator, returns: the error of
\* uniqName, or ok once version 1 of n is stored as DEPLOYED
InstallAfter(n, reuse) ==
    LET rq == [NoReq EXCEPT !.op = "install", !.name = n, !.chart = "c2",
                            !.reuse = reuse]
        u == uniqName(store, n, reuse)
        out == performRelease(NewRelease(u.name, rq, now), rq, store, now,
                              <<0, "">>, FALSE, <<0, "">>)
    IN  IF u.err # "" THEN u.err
        ELSE IF out.err # "" THEN out.err
        ELSE IF Get(out.store, n, 1).rel.status = DEPLOYED THEN "ok"
        ELSE "NotRecorded"

\* C14: after a successful uninstall with purge=true, a subsequent install
\* requesting that name with reuse_name=false succeeds, whatever the history
\* of the name (upgraded or rolled back before the uninstall, or not).
C14_PurgeFreesName ==
    \A p \in Procs :
        (Succeeded(p, "uninstall") /\ req[p].purge) =>
            InstallAfter(req[p].name, FALSE) = "ok"

\* C15: after a successful uninstall with purge=false, a subsequent install
\* requesting that name fails with AlreadyExists when reuse_name=false and
\* succeeds when reuse_name=true, whatever the history of the name (one
\* stored version or more).
C15_DeletedNameReusable ==
    \A p \in Procs :
        (Succeeded(p, "uninstall") /\ ~req[p].purge) =>
            /\ InstallAfter(req[p].name, FALSE) = "AlreadyExists"
            /\ InstallAfter(req[p].name, TRUE) = "ok"

\* the step of p has granted it the name it asked for: the release is built
\* under that name, or the renderer has failed after the grant
Granted(p) ==
    \/ pc'[p] = "in_perform" /\ rel'[p].name = req[p].name
    \/ pc'[p] = "done" /\ res'[p] = "RenderError"

\* the step of p has returned err
Refused(p, err) == pc'[p] = "done" /\ res'[p] = err

C17_NameLengthLimit ==
    [][\A p \in Procs :
          ( /\ pc[p] = "in_prepare" /\ pc'[p] # pc[p]
            /\ req[p].chart # NilChart /\ req[p].name # "" ) =>
              /\ Len(req[p].name) = 14 =>
                    /\ ~Refused(p, "TooLong")
                    /\ StatusOf(req[p].name, 1) = "absent" => Granted(p)
              /\ Len(req[p].name) >= 15 =>
                    /\ Refused(p, "TooLong")
                    /\ store' = store /\ klog'[p] = << >> /\ rel'[p] = NoRel]_vars

\* C17 happens: a name of 15 characters has been refused while the name of
\* 14 characters that is its prefix is in the store
C17_Witness ==
    \E p \in Procs :
        /\ Done(p, "install") /\ Len(req[p].name) = 15 /\ res[p] = "TooLong"
        /\ klog[p] = << >>
        /\ \E k \in DOMAIN store : Len(k[1]) = 14 /\ store[k].status = DEPLOYED

\* C18: when no name is requested, name allocation makes at most 5 store
\* lookups and returns the first generated candidate, cut to at most 14
\* characters, for which (candidate, 1) is not in the store; it fails with
\* Exhausted only if all 5 candidates collide.
C18_GeneratedNameWithinFiveTries ==
    [][\A p \in Procs :
          ( /\ pc[p] = "in_prepare" /\ <<pc'[p], tries'[p]>> # <<pc[p], tries[p]>>
            /\ req[p].chart # NilChart /\ req[p].name = "" ) =>
              \/ /\ pc'[p] = "in_perform" /\ tries'[p] = tries[p] /\ tries[p] < 5
                 /\ rel'[p].name # "" /\ Len(rel'[p].name) <= 14
                 /\ ~Has(store, rel'[p].name, 1)
              \/ /\ Refused(p, "RenderError") /\ tries'[p] = tries[p] /\ tries[p] < 5
              \/ /\ pc'[p] = pc[p] /\ tries'[p] = tries[p] + 1 /\ tries'[p] < 5
                 /\ \E k \in DOMAIN store : k[2] = 1 /\ Len(k[1]) <= 14
              \/ /\ Refused(p, "Exhausted") /\ tries[p] = 4 /\ tries'[p] = 5
                 /\ \E k \in DOMAIN store : k[2] = 1 /\ Len(k[1]) <= 14]_vars

\* C18 happens: an install without a name has been given a generated name
\* of 14 characters after its first candidates collided
C18_Witness ==
    \E p \in Procs :
        /\ pc[p] = "in_perform" /\ req[p].name = "" /\ tries[p] >= 2
        /\ Len(rel[p].name) = 14

\* C18 happens as well: five candidates have collided
C18_WitnessExhausted ==
    \E p \in Procs :
        Done(p, "install") /\ req[p].name = "" /\ res[p] = "Exhausted" /\ tries[p] = 5

\* C19: every method except GetVersion (install, update, rollback,
\* uninstall, status, content, list), called by a client whose version is
\* incompatible, is rejected with IncompatibleVersion before any store read
\* or write and before any orchestrator call; GetVersion returns the server
\* version whatever the client version.
C19_VersionCheckFirst ==
    [][\A p \in Procs :
          (pc[p] \in {"idle", "done"} /\ started' = started + 1) =>
              /\ ( /\ ~req'[p].compatible
                   /\ req'[p].op \in {"install", "update", "rollback", "uninstall",
                                      "status", "content", "list"} ) =>
                     /\ pc'[p] = "done" /\ res'[p] = "IncompatibleVersion"
                     /\ store' = store /\ klog'[p] = << >>
                     /\ cur'[p] = NoRel /\ rel'[p] = NoRel
              /\ req'[p].op = "version" =>
                     /\ pc'[p] = "done" /\ res'[p] = "ServerVersion"
                     /\ store' = store /\ klog'[p] = << >>]_vars

\* C19 happens: with a release in the store, ListReleases has turned an
\* incompatible client away
C19_Witness ==
    \E p \in Procs :
        /\ pc[p] = "done" /\ req[p].op = "list" /\ ~req[p].compatible
        /\ res[p] = "IncompatibleVersion"
        /\ DOMAIN store # {}

\* C20: the hook executor processes exactly the hooks whose events contain
\* the given event, one at a time in list order: for each it calls the
\* orchestrator's Create and then WatchUntilReady, and sets last_run only
\* after both succeed; on the first error it returns that error, no later
\* hook is submitted and no hook is retried.
C20_HooksInOrderUntilFirstError ==
    hrun.out # NoOutcome =>
        LET hs == hrun.hooks
            ev == hrun.event
            f == hrun.fail[1]
            out == hrun.out
            before == IF f = 0 THEN hs ELSE SubSeq(hs, 1, f - 1)
            failed == IF f = 0 THEN << >>
                      ELSE IF hrun.fail[2] = "Create"
                      THEN << <<"Create", hs[f].name>> >>
                      ELSE << <<"Create", hs[f].name>>,
                              <<"WatchUntilReady", hs[f].name>> >>
        IN  /\ out.calls = CompleteRun(before, ev) \o failed
            /\ Len(out.hooks) = Len(hs)
            /\ \A i \in 1 .. Len(hs) :
                  /\ out.hooks[i].name = hs[i].name
                  /\ out.hooks[i].events = hs[i].events
                  /\ out.hooks[i].lastRun =
                        IF ev \in hs[i].events /\ (f = 0 \/ i < f)
                        THEN now ELSE hs[i].lastRun
            /\ (out.err = "") = (f = 0)

\* C20 happens: of three hooks of which the first and the last implement
\* the event, the first has failed in WatchUntilReady and the last has not
\* been submitted
C20_Witness ==
    /\ hrun.out # NoOutcome
    /\ Len(hrun.hooks) = 3
    /\ hrun.event \in hrun.hooks[1].events
    /\ hrun.event \notin hrun.hooks[2].events
    /\ hrun.event \in hrun.hooks[3].events
    /\ hrun.fail = <<1, "WatchUntilReady">>
    /\ Len(hrun.out.calls) = 2 /\ hrun.out.err # ""
    /\ hrun.out.hooks[3].lastRun = 0

\* the hooks of r run for event ev, when the request has not disabled them
HooksRun(r, rq, ev) ==
    IF rq.disableHooks THEN << >> ELSE CompleteRun(r.hooks, ev)

\* the orchestrator Delete calls of an uninstall of r: one for each resource
\* of its manifest, last applied first
DeletesInOrder(r) ==
    [i \in 1 .. Len(r.manifest) |->
        <<"Delete", r.manifest[Len(r.manifest) + 1 - i]>>]

\* C21: a non-dry UninstallRelease of a deployed release runs, in order, the
\* pre-delete hooks, the orchestrator Delete of each manifest in uninstall
\* order, the post-delete hooks, then the store write (Delete when purge,
\* else Update with status DELETED); if an orchestrator Delete fails the
\* handler returns that error at once, with no further Delete, no
\* post-delete hook and no retry.
C21_UninstallInOrder ==
    [][\A p \in Procs :
          (pc[p] = "un_perform" /\ pc'[p] # pc[p]) =>
              LET r == cur[p]
                  pre == HooksRun(r, req[p], preDelete)
                  dels == DeletesInOrder(r)
                  post == HooksRun(r, req[p], postDelete)
                  written == /\ Key(rel'[p]) = Key(r) /\ rel'[p].status = DELETED
                             /\ store' = IF req[p].purge
                                         THEN Delete(store, r.name, r.version).store
                                         ELSE Update(store, rel'[p]).store
              IN  /\ pc'[p] = "done"
                  /\ IsPrefix(klog'[p], pre \o dels \o post)
                  /\ res'[p] = "ok" => (klog'[p] = pre \o dels \o post /\ written)
                  /\ res'[p] # "ok" => store' = store
                  /\ res'[p] = "OrchestratorError" =>
                        Len(klog'[p]) <= Len(pre) + Len(dels)]_vars

\* C21 happens: the Delete of the first of two resources has failed after a
\* pre-delete hook, and the handler has returned with nothing else called
C21_Witness ==
    \E p \in Procs :
        /\ Done(p, "uninstall") /\ res[p] = "OrchestratorError"
        /\ Len(cur[p].manifest) = 2
        /\ Matching(cur[p].hooks, postDelete) # {} /\ ~req[p].disableHooks
        /\ Len(klog[p]) = 3 /\ klog[p][3] = <<"Delete", "Pod">>
        /\ StatusOf(cur[p].name, cur[p].version) = DEPLOYED

\* the stored status of a record before and after a step
StatusIn(st, k) == IF k \in DOMAIN st THEN st[k].status ELSE "absent"

\* the changes of stored status the release state machine has
MachineSteps ==
    { <<"absent", DEPLOYED>>, <<"absent", FAILED>>,
      <<DEPLOYED, SUPERSEDED>>, <<DEPLOYED, DELETED>>, <<FAILED, DELETED>>,
      <<DELETED, "absent">> }

\* the changes an install that reuses a name and an uninstall that purges add
ReuseAndPurgeSteps ==
    { <<DELETED, DEPLOYED>>, <<DELETED, FAILED>>, <<FAILED, DEPLOYED>>,
      <<DEPLOYED, "absent">> }

Written(r) == [r EXCEPT !.status = UNKNOWN, !.deleted = 0]

\* a record but for info.status, info.deleted and the last_run of its hooks
WrittenButLastRun(r) ==
    [r EXCEPT !.status = UNKNOWN, !.deleted = 0,
              !.hooks = [i \in 1 .. Len(r.hooks) |-> [r.hooks[i] EXCEPT !.lastRun = 0]]]

C24_UninstallOfFailedRelease ==
    [][\A p \in Procs :
          ( /\ req[p].op = "uninstall" /\ Running(p) /\ pc'[p] # pc[p]
            /\ History(store, req[p].name) = {1}
            /\ StatusOf(req[p].name, 1) = FAILED ) =>
              /\ pc[p] = "un_deployed" => pc'[p] = "un_perform"
              /\ (pc'[p] = "done" /\ res'[p] = "ok") =>
                    StatusIn(store', <<req[p].name, 1>>) =
                        IF req[p].purge THEN "absent" ELSE DELETED]_vars

\* the highest stored version of a name that has one
Latest(s, n) == CHOOSE v \in History(s, n) : \A w \in History(s, n) : w <= v

\* C25: UninstallRelease on a name whose release is already DELETED (the
\* tombstone an earlier uninstall without purge has left): with purge=true
\* it calls the store's Delete(name, version), so that the record is gone
\* afterwards, and returns the release; with purge=false it returns an
\* 'already deleted' error and leaves the store unchanged; in neither case
\* is a hook run or an orchestrator Delete issued.
C25_UninstallOfTombstone ==
    [][\A p \in Procs :
          ( /\ pc[p] = "un_deployed" /\ pc'[p] # pc[p]
            /\ History(store, req[p].name) # {}
            /\ DeployedVersions(store, req[p].name) = {}
            /\ StatusOf(req[p].name, Latest(store, req[p].name)) = DELETED ) =>
              LET k == <<req[p].name, Latest(store, req[p].name)>> IN
              /\ pc'[p] = "done" /\ klog'[p] = << >>
              /\ IF req[p].purge
                 THEN /\ res'[p] = "ok"
                      /\ k \notin DOMAIN store'
                      /\ cur'[p] = store[k]
                 ELSE /\ res'[p] = "AlreadyDeleted"
                      /\ store' = store]_vars

\* C26 as stated: GetReleaseStatus for a release whose stored status is
\* DELETED or FAILED skips the live check: it makes no orchestrator Get call
\* and returns the stored info successfully; for any other status it calls
\* the orchestrator's Get and returns an error if that call fails.
C26_StatusSkipsLiveCheck ==
    [][\A p \in Procs :
          (pc[p] = "st_get" /\ pc'[p] = "done" /\ cur'[p] # NoRel) =>
              IF cur'[p].status \in {DELETED, FAILED}
              THEN klog'[p] = << >> /\ res'[p] = "ok"
              ELSE /\ klog'[p] = << <<"Get", "manifest">> >>
                   /\ res'[p] \in {"ok", "OrchestratorError"}]_vars

\* C26 as amended: GetReleaseStatus calls the orchestrator's Get for every
\* release it has fetched; for a release whose stored status is DELETED or
\* FAILED it returns the stored info successfully whether that call fails or
\* not; for any other status it returns an error if the call fails.
C26_StatusSkipsLiveCheckError ==
    [][\A p \in Procs :
          (pc[p] = "st_get" /\ pc'[p] = "done") =>
              IF cur'[p] = NoRel
              THEN klog'[p] = << >> /\ res'[p] \in {"MissingRelease", "NotFound"}
              ELSE /\ klog'[p] = << <<"Get", "manifest">> >>
                   /\ cur'[p] \in {store[k] : k \in DOMAIN store}
                   /\ IF cur'[p].status \in {DELETED, FAILED}
                      THEN res'[p] = "ok"
                      ELSE res'[p] \in {"ok", "OrchestratorError"}]_vars

\* C26 happens: the status of a DELETED release has been returned, the
\* orchestrator having been asked
C26_Witness ==
    \E p \in Procs :
        /\ pc[p] = "done" /\ req[p].op = "status" /\ res[p] = "ok"
        /\ cur[p].status = DELETED
        /\ klog[p] = << <<"Get", "manifest">> >>

\* C26 happens as well: the status of a DEPLOYED release has not been
\* returned, the orchestrator's Get having failed
C26_WitnessLiveCheckFailed ==
    \E p \in Procs :
        /\ pc[p] = "done" /\ req[p].op = "status" /\ res[p] = "OrchestratorError"
        /\ cur[p].status = DEPLOYED

----------------------------------------------------------------------------
(* ListReleases *)

\* the handler of p has sent a list
Listed(p) == pc[p] = "done" /\ req[p].op = "list" /\ res[p] = "ok"

\* the stored releases a list request asks for
Asked(s, l) ==
    {s[k] : k \in {x \in DOMAIN s :
        /\ s[x].status \in (IF l.codes = {} THEN {DEPLOYED} ELSE l.codes)
        /\ l.filter = "" \/ MatchString(l.filter, x[1])}}

\* C27: ListReleases returns exactly the stored releases whose status is in
\* the requested set of status codes ({DEPLOYED} when the request gives none)
\* and whose name matches the filter, if there is one: the list the page is
\* cut from holds each of them once and nothing else, total is their number,
\* the page holds only such releases, and all of them when the request asks
\* for no offset and no limit.
C27_ListReturnsMatchingReleases ==
    \A p \in Procs :
        Listed(p) =>
            LET m == Asked(store, req[p].list)
                r == listed[p]
            IN  /\ r.total = Cardinality(m)
                /\ Len(r.sorted) = Cardinality(m)
                /\ Range(r.sorted) = m
                /\ Range(r.releases) \subseteq m
                /\ req[p].list.offset = "" /\ req[p].list.limit = 0
                      => Len(r.releases) = Cardinality(m) /\ Range(r.releases) = m

\* a list whose filter leaves out a stored release of a status asked for
C27_Witness ==
    \E p \in Procs :
        /\ Listed(p)
        /\ req[p].list.filter = "b"
        /\ listed[p].total = 1
        /\ \E k \in DOMAIN store : k[1] = "a" /\ store[k].status \in req[p].list.codes

\* a list with no status codes returns the DEPLOYED releases
C27_WitnessDefaultCodes ==
    \E p \in Procs :
        /\ Listed(p)
        /\ req[p].list.codes = {}
        /\ listed[p].total = 1
        /\ \E k \in DOMAIN store : store[k].status = SUPERSEDED

\* the limit of a list request: 512 when it gives 0
LimitOf(l) == IF l.limit = 0 THEN 512 ELSE l.limit

\* the releases stand in the order asked for
InOrder(q, l) ==
    \A i, j \in 1 .. Len(q) :
        i < j =>
            LET a == IF l.desc THEN q[j] ELSE q[i]
                b == IF l.desc THEN q[i] ELSE q[j]
            IN  /\ l.sortBy = "NAME" => ~NameLess(b.name, a.name)
                /\ l.sortBy = "LAST_RELEASED" => a.last <= b.last

\* the response is the page of the list full that begins at position start
PageAt(r, full, start, l) ==
    /\ r.releases = SubSeq(full, start, start + r.count - 1)
    /\ r.count < LimitOf(l) => start + r.count - 1 = Len(full)
    /\ r.next = IF start + r.count <= Len(full) THEN full[start + r.count].name ELSE ""

\* C28: ListReleases treats limit 0 as 512 and returns at most limit
\* releases, count being their number; the page is a run of the sorted list
\* that begins at its head, or at a release named by the offset, and is cut
\* short only by the end of the list; next is the name of the release that
\* follows the page in the sorted list and is empty when the page reaches
\* its end; the request fails when no release of the filtered list has the
\* name given as offset.
C28_ListPage ==
    \A p \in Procs :
        LET l == req[p].list
            r == listed[p]
        IN  /\ Listed(p) =>
                /\ r.count = Len(r.releases)
                /\ r.count <= LimitOf(l)
                /\ InOrder(r.sorted, l)
                /\ IF l.offset = "" THEN PageAt(r, r.sorted, 1, l)
                   ELSE \E start \in 1 .. Len(r.sorted) :
                            /\ r.sorted[start].name = l.offset
                            /\ PageAt(r, r.sorted, start, l)
            /\ pc[p] = "done" /\ req[p].op = "list" /\ req[p].compatible
               /\ l.offset # "" /\ (\A m \in Asked(store, l) : m.name # l.offset)
                  => res[p] = "OffsetNotFound" /\ r = NoResponse

\* a page that begins at the offset and stops before the end of the list
C28_Witness ==
    \E p \in Procs :
        /\ Listed(p)
        /\ req[p].list.offset = "a" /\ req[p].list.limit = 1
        /\ listed[p].count = 1 /\ listed[p].total = 2
        /\ listed[p].next = Name14

\* limit 0 returns the whole list
C28_WitnessDefaultLimit ==
    \E p \in Procs :
        /\ Listed(p)
        /\ req[p].list.limit = 0
        /\ listed[p].count = 2 /\ listed[p].next = ""

\* an offset that names no release of the list
C28_WitnessOffsetNotFound ==
    \E p \in Procs :
        /\ pc[p] = "done" /\ res[p] = "OffsetNotFound"
        /\ req[p].list.offset = "a"
        /\ \E k \in DOMAIN store : k[1] = Name14

----------------------------------------------------------------------------
(* Timestamps *)

\* C29: every stored version of a name carries the first_deployed time of
\* version 1 of that name, and no stored release was first deployed after
\* it was last deployed.
C29_FirstDeployedKept ==
    \A k \in DOMAIN store :
        /\ Has(store, k[1], 1) => store[k].first = store[<<k[1], 1>>].first
        /\ store[k].first <= store[k].last

----------------------------------------------------------------------------
(* The manifest sorter *)

KindsOf(files) == [i \in 1 .. Len(files) |-> files[i].content.kind]

\* where the resource stands in a list of files
Place(files, c) == CHOOSE i \in 1 .. Len(files) : files[i].content = c

\* where the kind stands in the install table
Priority(k) == CHOOSE i \in 1 .. Len(InstallOrder) : InstallOrder[i] = k

\* resources of one kind stand in the list after as they stand in the list before
TiesKept(before, after) ==
    \A i, j \in 1 .. Len(before) :
        i < j /\ before[i].content.kind = before[j].content.kind
            => Place(after, before[i].content) < Place(after, before[j].content)

----------------------------------------------------------------------------
(* Store lookups that fail *)

\* C31: name allocation looks at the release its store lookup returned only
\* when the lookup succeeded: whatever error the lookup ends with, the
\* status of a missing release is never read, and the step grants the name
\* or returns an error.
C31_LookupErrorChecked ==
    [][\A p \in Procs :
          (pc[p] = "in_prepare" /\ pc'[p] # pc[p]) =>
              /\ res'[p] # "NilDereference"
              /\ \/ pc'[p] = "in_perform"
                 \/ pc'[p] = "done" /\ res'[p] # "ok"]_vars

----------------------------------------------------------------------------
(* Client commands *)

\* the packaged chart archives of a directory that load as a chart
Archives(dir) == {n \in DOMAIN dir : HasSuffix(n, ".tgz") /\ dir[n] # NotAChart}

----------------------------------------------------------------------------
(* Failed upgrades, rollbacks and uninstalls *)

\* the step of p ends an upgrade or a rollback that is no dry run with an error
SwitchFails(p) ==
    /\ pc[p] \in {"up_perform", "up_create", "rb_perform", "rb_create"}
    /\ ~req[p].dryRun
    /\ pc'[p] = "done" /\ res'[p] # "ok"

\* C33: when an UpdateRelease or a RollbackRelease that is no dry run
\* returns an error, whatever failed, the version of the name that was
\* DEPLOYED when the handler fetched it is still stored as DEPLOYED.
C33_FailedSwitchKeepsDeployed ==
    [][\A p \in Procs :
          SwitchFails(p) =>
              /\ Has(store', cur[p].name, cur[p].version)
              /\ store'[<<cur[p].name, cur[p].version>>].status = DEPLOYED]_vars

\* an UninstallRelease that returns an error from its deleting part
UninstallFails(p) ==
    /\ pc[p] = "un_perform" /\ pc'[p] = "done"
    /\ res'[p] \in {"HookFailed", "OrchestratorError"}

\* the orchestrator Delete calls of a call log
DeletesOf(log) == SelectSeq(log, LAMBDA c : c[1] = "Delete")

\* C34: when UninstallRelease returns an error after it has started deleting
\* (a pre-delete hook error, an orchestrator Delete error or a post-delete
\* hook error) it writes nothing to the store: the stored record keeps the
\* status it had before the call, whatever has been deleted already.
C34_FailedUninstallWritesNothing ==
    [][\A p \in Procs :
          UninstallFails(p) =>
              /\ store' = store
              /\ StatusIn(store', Key(cur[p])) = cur[p].status
              /\ cur[p].status # DELETED]_vars

\* C34 happens: every resource of the release has been deleted, a post-delete
\* hook has failed, and the record is still stored as DEPLOYED
C34_Witness ==
    \E p \in Procs :
        /\ Done(p, "uninstall") /\ res[p] = "HookFailed"
        /\ cur[p].manifest # << >>
        /\ Len(DeletesOf(klog[p])) = Len(cur[p].manifest)
        /\ klog[p][Len(klog[p])][1] \in {"Create", "WatchUntilReady"}
        /\ StatusOf(cur[p].name, cur[p].version) = DEPLOYED

\* the step of a handler in which it runs hooks, of a request that is no dry
\* run and disables them
HooksDisabledStep(p) ==
    /\ pc[p] \in {"in_perform", "up_perform", "rb_perform", "un_perform"}
    /\ pc'[p] # pc[p]
    /\ req[p].disableHooks /\ ~req[p].dryRun

\* the release whose hooks the handler of p would run
Hooked(p) == IF pc[p] = "un_perform" THEN cur[p] ELSE rel[p]

\* an orchestrator call that submits or awaits a hook
IsHookCall(c) == c[1] = "WatchUntilReady" \/ (c[1] = "Create" /\ c[2] # "manifest")

\* a release, a request and a store as they are but for the hooks
Bare(r) == [r EXCEPT !.hooks = << >>]
HooksOn(rq) == [rq EXCEPT !.disableHooks = FALSE]
Stripped(s) == [k \in DOMAIN s |-> Bare(s[k])]
Outcome(out) == <<Stripped(out.store), out.calls, Result(out.err), out.rel.status>>

NoFailure == <<0, "">>

\* what the step of p can do as the request is (disable), and what it can do
\* with hooks enabled on a release that has no hooks (enable)
HookStepOutcomes(p, disable) ==
    LET r  == IF disable THEN Hooked(p) ELSE Bare(Hooked(p))
        rq == IF disable THEN req[p] ELSE HooksOn(req[p])
    IN  IF pc[p] = "in_perform"
        THEN {Outcome(performRelease(r, rq, store, now, NoFailure, fk, NoFailure)) :
                 fk \in BOOLEAN}
        ELSE IF pc[p] = "up_perform"
        THEN {Outcome(performUpdate(cur[p], r, rq, store, now, NoFailure, fk, NoFailure)) :
                 fk \in BOOLEAN}
        ELSE IF pc[p] = "rb_perform"
        THEN {Outcome(performRollback(cur[p], r, rq, store, now, NoFailure, fk, NoFailure)) :
                 fk \in BOOLEAN}
        ELSE {Outcome(performUninstall(r, rq, store, now, NoFailure, fvs, fdel, NoFailure)) :
                 fvs \in BOOLEAN, fdel \in 0 .. Len(r.manifest)}

\* C35: with disable_hooks set, InstallRelease, UpdateRelease, RollbackRelease
\* and UninstallRelease submit no hook to the orchestrator (no hook Create, no
\* WatchUntilReady) and change no hook's last_run, in the release they work on
\* or in the store, while the orchestrator calls for the manifest, the store
\* writes and the result are those of the same request with hooks enabled on
\* a release that has no hooks.
C35_DisabledHooksNotRun ==
    [][\A p \in Procs :
          HooksDisabledStep(p) =>
              /\ \A i \in 1 .. Len(klog'[p]) : ~IsHookCall(klog'[p][i])
              /\ rel'[p].hooks = Hooked(p).hooks
              /\ \A k \in DOMAIN store' :
                    store'[k].hooks = IF k = Key(Hooked(p)) THEN Hooked(p).hooks
                                      ELSE store[k].hooks
              /\ HookStepOutcomes(p, TRUE) = HookStepOutcomes(p, FALSE)
              /\ <<Stripped(store'), klog'[p],
                    IF pc'[p] = "done" THEN res'[p] ELSE "ok",
                    rel'[p].status>> \in HookStepOutcomes(p, FALSE)]_vars

\* C35 happens: an uninstall with hooks disabled, of a release that has a
\* pre-delete and a post-delete hook, has deleted the resources and stored
\* the record DELETED with no hook run
C35_Witness ==
    \E p \in Procs :
        /\ Succeeded(p, "uninstall") /\ req[p].disableHooks /\ ~req[p].purge
        /\ Matching(cur[p].hooks, preDelete) # {}
        /\ Matching(cur[p].hooks, postDelete) # {}
        /\ klog[p] = DeletesInOrder(cur[p]) /\ klog[p] # << >>
        /\ StatusOf(cur[p].name, cur[p].version) = DELETED
        /\ store[Key(cur[p])].hooks = cur[p].hooks

\* C36: against an unchanged store, paging through ListReleases by passing
\* each response's next as the following request's offset, until next is
\* empty, returns every matching release exactly once, in the sorted order,
\* for any status-code set.
C36_PagingReturnsAll ==
    (crun.cmd = "page" /\ crun.done) => crun.got = crun.sorted

\* the value a given pair stands for
GivenValue(g) == IF g.val = "" THEN BoolTrue ELSE <<"string", g.val>>

\* path q is path k or the path of a map above it
Above(q, k) == Len(q) <= Len(k) /\ SubSeq(k, 1, Len(q)) = q

\* C37: parsing a --set argument of comma-separated pairs, each pair
\* a.b.c=v stores v at the nested path a, b, c of the map (true for a pair
\* without "=") and adds no key anywhere else, whatever the order of the
\* pairs and whatever an earlier pair has set on the path: once the argument
\* is parsed, the last pair's value is at its path, under maps all the way,
\* and every key of the map is on the path of a given pair.
C37_SetStoresAtPath ==
    (crun.cmd = "set" /\ crun.parsed) =>
        LET last == crun.given[Len(crun.given)] IN
        /\ last.path \in DOMAIN crun.pairs
        /\ crun.pairs[last.path] = GivenValue(last)
        /\ \A n \in 1 .. Len(last.path) - 1 :
              /\ SubSeq(last.path, 1, n) \in DOMAIN crun.pairs
              /\ crun.pairs[SubSeq(last.path, 1, n)] = MapNode
        /\ \A q \in DOMAIN crun.pairs :
              \E j \in 1 .. Len(crun.given) : Above(q, crun.given[j].path)

====
